---- MODULE Spec2Model ----
(***************************************************************************)
(* Authentication and session lifecycle of the ordering backend:           *)
(* userService (Register, Login, Logout, RefreshToken, ValidateToken), the *)
(* user and refresh-token repositories it calls, and the user endpoints    *)
(* that turn its results into HTTP answers; and the middleware chain in    *)
(* front of the protected routes (AuthMiddleware, RequireRole,             *)
(* RequireAdmin).                                                          *)
(*                                                                         *)
(* Every request runs as a task of its own.  A task takes one step per     *)
(* store round trip; the local computation that follows a round trip       *)
(* (password check, token signing, clock reads) belongs to the same step.  *)
(* The clock is counted in ticks of 1/SubSec second, so that the           *)
(* one-second precision of the JWT date claims can be told from the        *)
(* precision of time.Now().                                                *)
(***************************************************************************)
EXTENDS Integers, Sequences, FiniteSets, TLC

\* ------------------------------------------------------------ bounds
\* Requests (and role changes) started in one behaviour.
MaxCalls == 4
\* Clock advances in one behaviour.
MaxClockSteps == 2
\* Clock ticks per second.
SubSec == 2
\* The store calls that may fail in one run.
MaxStoreErrors == 2
\* The largest RequestsPerWindow of a rate limiter.
MaxRequestsPerWindow == 2

\* ------------------------------------------------- program constants
BcryptCost == 10
\* 15 * time.Minute, in seconds
AccessTokenExpiration == 900
\* 7 * 24 * time.Hour, in seconds
RefreshTokenExpiration == 604800
StatusOK == 200
StatusCreated == 201
StatusUnauthorized == 401
StatusForbidden == 403
StatusConflict == 409
StatusInternalServerError == 500
StatusTooManyRequests == 429
StatusBadRequest == 400

\* The concurrent request tasks.
Procs == {"t1", "t2"}
Emails == {"alice@x.com", "bob@x.com"}
\* The passwords users register with, and the passwords that are tried at login.
RegisterPasswords == {"Secret123"}
Passwords == {"Secret123", "Secret124"}
Roles == {"user", "admin"}
jwtSecret == "test-secret-key"
\* The names a registration gives.
FirstNames == {"John"}
LastNames == {"Doe"}

\* ------------------------------------------------------------ errors
\* An error is its message; nil is the empty message.  Comparing two Go
\* sentinel errors with == is comparing their messages, all distinct.
nil == ""
ErrUserNotFound == "user not found"
ErrUserAlreadyExists == "user with this email already exists"
ErrRefreshTokenNotFound == "refresh token not found"
ErrRefreshTokenRevoked == "refresh token has been revoked"
ErrInvalidCredentials == "invalid email or password"
ErrInvalidToken == "invalid token"
ErrTokenExpired == "token has expired"
\* fmt.Errorf("<prefix>: %w", err)
Wrap(prefix, err) == prefix \o ": " \o err

\* ------------------------------------------------------- zero values
\* A nil *jwt.NumericDate.
NilDate == -1
\* The empty access-token string.
NoAccess == [alg |-> "", user_id |-> 0, role |-> "", iat |-> NilDate, exp |-> NilDate, sig |-> ""]
\* A nil *domain.User.
NoUser == [id |-> 0, email |-> "", passwordHash |-> [cost |-> 0, salt |-> 0, digest |-> <<>>],
           firstName |-> "", lastName |-> "", role |-> ""]
\* A nil *domain.RefreshToken.
NoRefresh == [userID |-> 0, token |-> 0, expiresAt |-> 0, createdAt |-> 0, revoked |-> FALSE]
\* The token string that no Login ever minted.
Forged == 0
\* A request: the operation and its arguments, and (history) whether, when the
\* request began, Logout had already returned success for its token and a user
\* with its email was registered.
NoCall == [op |-> "", email |-> "", firstName |-> "", lastName |-> "", token |-> 0,
           afterLogout |-> FALSE, knownEmail |-> FALSE]
NoResp == [err |-> "pending", accessToken |-> NoAccess, refreshToken |-> 0, user |-> NoUser,
           status |-> 0, message |-> ""]
NoLocal == [password |-> "", user |-> NoUser, access |-> NoAccess, rt |-> NoRefresh]
\* No request in the chain: no header, no middleware on the route.
NoRequest == [header |-> <<>>, route |-> <<>>, allowedRoles |-> <<>>]
\* Nothing written, no middleware reached, the handler not invoked.
NoReply == [at |-> 0, status |-> 0, message |-> "", handled |-> FALSE]
\* ValidateToken not called.
NoValidated == [claims |-> NoAccess, err |-> "pending"]
\* A header that is not set.
NoHeader == -1
\* A key without an expiry.
NoExpiry == -1
\* No rate limiter configured.
NoConfig == [RequestsPerWindow |-> 0, Window |-> 0, KeyPrefix |-> ""]
\* A key of the counter store that was never set; `window` (history) counts
\* the times the key has been created.
NoCounter == [count |-> 0, expiresAt |-> NoExpiry, window |-> 0]
\* The empty counter store.
NoKeys == [key \in {} |-> NoCounter]
\* A task that has not been in RateLimitMiddleware: no key, nothing counted, no
\* response written, no header set.  `counted` and `window` are history:
\* whether the increment succeeded, and in which window of the key.
NoLimiter == [at |-> "idle", key |-> "", count |-> 0, counted |-> FALSE, window |-> 0,
              status |-> 0, handled |-> FALSE, limit |-> NoHeader, remaining |-> NoHeader,
              reset |-> NoHeader, retryAfter |-> NoHeader]
\* No request let through yet, for any key.
NoPasses == [key \in {} |-> <<>>]
\* No product: the zero value of domain.Product.
NoProduct == [id |-> 0, name |-> "", description |-> "", price |-> 0, categoryID |-> 0,
              imageURL |-> "", stock |-> 0]
\* The empty products table.
NoProducts == [id \in {} |-> NoProduct]
\* No call of the product repository yet.
NoProductCall == [op |-> "", product |-> NoProduct, found |-> NoProduct, err |-> ""]

VARIABLES
    users,       \* the users table, in order of creation; a user's id is its position
    tokens,      \* the refresh_tokens table; a token's string is its position
    now,         \* the clock, in ticks
    clockSteps,  \* clock advances so far
    calls,       \* requests started so far
    pc,          \* where each task is
    call,        \* the request each task serves
    local,       \* each task's local variables
    resp,        \* the answer of each task's last finished request
    loggedOut,   \* history: the minted token strings for which Logout has returned success
    request,     \* the HTTP request that is in the middleware chain
    ctx,         \* that request's context
    reply,       \* how far the request is in its chain, and the answer written
    validated,   \* what ValidateToken returned for the request's token
    config,      \* the RateLimitConfig of the rate limiter
    counters,    \* the counter store: the keys of the rate limiter
    limiter,     \* where each task is in RateLimitMiddleware, and its last response
    storeErrors, \* store calls that have returned an unexpected error so far
    passed,      \* history: for each key of the rate limiter, when its requests were let through
    products,    \* the products table: the row of each product id
    productCall  \* the last call of the product repository, with what it returned

\* The variables of the middleware chain.
mwVars == <<request, ctx, reply, validated>>
\* The variables of the rate limiter.
rlVars == <<config, counters, limiter>>
\* The variables of the product catalog.
catVars == <<products, productCall>>
vars == <<users, tokens, now, clockSteps, calls, pc, call, local, resp, loggedOut,
          request, ctx, reply, validated, config, counters, limiter, storeErrors,
          passed, products, productCall>>

\* ------------------------------------------------------------- clock
\* jwt.NewNumericDate: the time truncated to jwt.TimePrecision, one second.
NewNumericDate(t) == t \div SubSec
\* The time of a numeric date, in ticks.
DateTime(d) == d * SubSec
\* What the clock may have advanced by between two reads of one function.
Drift == IF clockSteps < MaxClockSteps THEN {0, 1} ELSE {0}


\* ------------------------------------------------------ repositories
\* userRepository.FindByEmail: the row with that email, or ErrUserNotFound.
FindByEmail(email) ==
    IF \E i \in 1..Len(users) : users[i].email = email
    THEN [user |-> users[CHOOSE i \in 1..Len(users) : users[i].email = email], err |-> nil]
    ELSE [user |-> NoUser, err |-> ErrUserNotFound]

\* userRepository.FindByID: the row with that id, or ErrUserNotFound.
FindByID(id) ==
    IF id \in 1..Len(users)
    THEN [user |-> users[id], err |-> nil]
    ELSE [user |-> NoUser, err |-> ErrUserNotFound]

\* Create on a table that has lost its users_email_key constraint.
UserCreateErrNoConstraint(user) == nil

\* userRepository.Create: the error the insert returns; the users_email_key
\* constraint refuses a second row with the same email.
UserCreateErr(user) ==
    IF \E i \in 1..Len(users) : users[i].email = user.email
    THEN ErrUserAlreadyExists
    ELSE nil

\* FindByToken without its check of the revoked flag.
FindByTokenIgnoringRevoked(token) ==
    IF token \notin 1..Len(tokens)
    THEN [rt |-> NoRefresh, err |-> ErrRefreshTokenNotFound]
    ELSE [rt |-> tokens[token], err |-> nil]

\* refreshTokenRepository.FindByToken: the row, ErrRefreshTokenNotFound when
\* there is none, ErrRefreshTokenRevoked (and no row) when it is revoked.
FindByToken(token) ==
    IF token \notin 1..Len(tokens)
    THEN [rt |-> NoRefresh, err |-> ErrRefreshTokenNotFound]
    ELSE IF tokens[token].revoked
         THEN [rt |-> NoRefresh, err |-> ErrRefreshTokenRevoked]
         ELSE [rt |-> tokens[token], err |-> nil]

\* Revoke flipping the flag instead of setting it.
RevokedTableToggling(token) ==
    [i \in 1..Len(tokens) |->
        IF tokens[i].token = token
        THEN [tokens[i] EXCEPT !.revoked = ~tokens[i].revoked]
        ELSE tokens[i]]

\* refreshTokenRepository.Revoke, the table after UPDATE ... SET revoked = TRUE.
RevokedTable(token) ==
    [i \in 1..Len(tokens) |->
        IF tokens[i].token = token THEN [tokens[i] EXCEPT !.revoked = TRUE] ELSE tokens[i]]

\* Revoke reporting the missing row as a driver error.
RevokeErrGeneric(token) ==
    IF \E i \in 1..Len(tokens) : tokens[i].token = token THEN nil ELSE "sql: no rows in result set"

\* refreshTokenRepository.Revoke, its error: ErrRefreshTokenNotFound when the
\* update affected no row.
RevokeErr(token) ==
    IF \E i \in 1..Len(tokens) : tokens[i].token = token THEN nil ELSE ErrRefreshTokenNotFound

\* ----------------------------------------------------------- service
\* hashPassword: bcrypt with BcryptCost and the salt drawn for this call.
hashPassword(password, salt) ==
    [cost |-> BcryptCost, salt |-> salt, digest |-> <<salt, BcryptCost, password>>]

\* verifyPassword comparing nothing.
verifyPasswordAcceptsAll(hashedPassword, password) == nil

\* verifyPassword: bcrypt.CompareHashAndPassword, nil when the password
\* hashes, under the hash's own salt and cost, to the hash's digest.
verifyPassword(hashedPassword, password) ==
    IF hashedPassword.digest = <<hashedPassword.salt, hashedPassword.cost, password>>
    THEN nil
    ELSE "crypto/bcrypt: hashedPassword is not the hash of the given password"

\* The signing methods of type *jwt.SigningMethodHMAC.
SigningMethodHMAC == {"HS256", "HS384", "HS512"}

\* generateAccessToken always claiming the default role.
generateAccessTokenDefaultRole(user, t1, t2) ==
    [alg |-> "HS256", user_id |-> user.id, role |-> "user",
     iat |-> NewNumericDate(t2),
     exp |-> NewNumericDate(t1 + AccessTokenExpiration * SubSec),
     sig |-> jwtSecret]

\* generateAccessToken leaving out the issued-at claim.
generateAccessTokenNoIssuedAt(user, t1, t2) ==
    [alg |-> "HS256", user_id |-> user.id, role |-> user.role,
     iat |-> NilDate,
     exp |-> NewNumericDate(t1 + AccessTokenExpiration * SubSec),
     sig |-> jwtSecret]

\* generateAccessToken: the expiry is computed from a first clock read (t1) and
\* the issue date from a second one (t2); the token is signed HS256 with the
\* service's secret.
generateAccessToken(user, t1, t2) ==
    [alg |-> "HS256", user_id |-> user.id, role |-> user.role,
     iat |-> NewNumericDate(t2),
     exp |-> NewNumericDate(t1 + AccessTokenExpiration * SubSec),
     sig |-> jwtSecret]

\* --------------------------------------------------------------- jwt
\* The errors of github.com/golang-jwt/jwt/v5 that a parse joins into its own.
jwtErrTokenMalformed == "token is malformed"
jwtErrTokenUnverifiable == "token is unverifiable"
jwtErrTokenSignatureInvalid == "token signature is invalid"
jwtErrTokenInvalidClaims == "token has invalid claims"
jwtErrTokenExpired == "token is expired"
jwtErrSignatureInvalid == "signature is invalid"
\* The signing methods the library knows by name.
SigningMethods == SigningMethodHMAC \cup {"RS256", "none"}
\* A user_id claim that is a string but no UUID, and one that is no string.
NotAUUID == -1
NotAString == -2
\* A role claim that is no string.
RoleNotAString == "<not a string>"

\* A parse that does not look at the exp claim.
jwtParseWithoutClaimsValidation(tokenString, t, typed, keyFuncErr) ==
    IF tokenString = NoAccess
    THEN Wrap(jwtErrTokenMalformed, "token contains an invalid number of segments")
    ELSE IF typed /\ (tokenString.user_id \in {NotAUUID, NotAString}
                      \/ tokenString.role = RoleNotAString)
    THEN Wrap(jwtErrTokenMalformed, "could not JSON decode claim")
    ELSE IF tokenString.alg \notin SigningMethods
    THEN Wrap(jwtErrTokenUnverifiable, "signing method (alg) is unavailable")
    ELSE IF tokenString.alg \notin SigningMethodHMAC
    THEN Wrap(jwtErrTokenUnverifiable, Wrap("error while executing keyfunc", keyFuncErr))
    ELSE IF tokenString.sig # jwtSecret
    THEN Wrap(jwtErrTokenSignatureInvalid, jwtErrSignatureInvalid)
    ELSE nil

\* jwt.Parser.ParseWithClaims at time t, its error: the claims are decoded
\* (into the Claims struct when `typed`, into jwt.MapClaims otherwise), the
\* signing method is looked up, the key function is asked for the key (it
\* answers keyFuncErr for a method that is not an HMAC one), the signature is
\* verified and the exp claim, when there is one, must be after t.
jwtParse(tokenString, t, typed, keyFuncErr) ==
    IF tokenString = NoAccess
    THEN Wrap(jwtErrTokenMalformed, "token contains an invalid number of segments")
    ELSE IF typed /\ (tokenString.user_id \in {NotAUUID, NotAString}
                      \/ tokenString.role = RoleNotAString)
    THEN Wrap(jwtErrTokenMalformed, "could not JSON decode claim")
    ELSE IF tokenString.alg \notin SigningMethods
    THEN Wrap(jwtErrTokenUnverifiable, "signing method (alg) is unavailable")
    ELSE IF tokenString.alg \notin SigningMethodHMAC
    THEN Wrap(jwtErrTokenUnverifiable, Wrap("error while executing keyfunc", keyFuncErr))
    ELSE IF tokenString.sig # jwtSecret
    THEN Wrap(jwtErrTokenSignatureInvalid, jwtErrSignatureInvalid)
    ELSE IF tokenString.exp # NilDate /\ ~(t < DateTime(tokenString.exp))
    THEN Wrap(jwtErrTokenInvalidClaims, jwtErrTokenExpired)
    ELSE nil

\* ValidateToken answering with the role the users table holds for the
\* token's user.
ValidateTokenCurrentRole(tokenString, t) ==
    LET err == jwtParse(tokenString, t, TRUE, "unexpected signing method") IN
    IF err # nil
    THEN [claims |-> NoAccess, err |-> Wrap("failed to parse token", err)]
    ELSE IF FindByID(tokenString.user_id).err # nil
    THEN [claims |-> NoAccess, err |-> ErrInvalidToken]
    ELSE [claims |-> [tokenString EXCEPT !.role = FindByID(tokenString.user_id).user.role],
          err |-> nil]

\* ValidateToken at time t: the claims, or the error of the parse, wrapped.
\* (A parse without error leaves token.Valid true, so the ErrInvalidToken
\* branch is never taken.)
ValidateToken(tokenString, t) ==
    LET err == jwtParse(tokenString, t, TRUE, "unexpected signing method") IN
    IF err # nil
    THEN [claims |-> NoAccess, err |-> Wrap("failed to parse token", err)]
    ELSE [claims |-> tokenString, err |-> nil]

\* -------------------------------------------------------- middleware
UserIDKey == "user_id"
UserRoleKey == "user_role"
\* context.Background(): no value under any key.
NoContext == [user_id |-> [ok |-> FALSE, value |-> 0], user_role |-> [ok |-> FALSE, value |-> ""]]
\* context.WithValue
WithValue(c, key, value) == [c EXCEPT ![key] = [ok |-> TRUE, value |-> value]]
\* GetUserRole: ctx.Value(UserRoleKey).(string)
GetUserRole(c) == [role |-> c[UserRoleKey].value, ok |-> c[UserRoleKey].ok]
\* GetUserID: ctx.Value(UserIDKey).(string)
GetUserID(c) == [userID |-> c[UserIDKey].value, ok |-> c[UserIDKey].ok]

\* respondWithError: the chain ends here with this status and message.
respondWithError(c, statusCode, message) ==
    [next |-> FALSE, ctx |-> c, status |-> statusCode, message |-> message]
\* next.ServeHTTP: the request goes on with this context.
ServeNext(c) == [next |-> TRUE, ctx |-> c, status |-> 0, message |-> ""]

\* AuthMiddleware taking the token of any two-part header, whatever its scheme.
AuthMiddlewareAnyScheme(c, authHeader, t) ==
    IF authHeader = <<>>
    THEN respondWithError(c, StatusUnauthorized, "missing authorization header")
    ELSE IF Len(authHeader) # 2
    THEN respondWithError(c, StatusUnauthorized, "invalid authorization header format")
    ELSE LET tokenString == authHeader[2]
             err == jwtParse(tokenString, t, FALSE, jwtErrSignatureInvalid)
         IN
         IF err # nil
         THEN IF err = jwtErrTokenExpired
              THEN respondWithError(c, StatusUnauthorized, "token expired")
              ELSE respondWithError(c, StatusUnauthorized, "invalid token")
         ELSE IF tokenString.user_id = NotAString
         THEN respondWithError(c, StatusUnauthorized, "invalid token claims")
         ELSE IF tokenString.role = RoleNotAString
         THEN respondWithError(c, StatusUnauthorized, "invalid token claims")
         ELSE ServeNext(WithValue(WithValue(c, UserIDKey, tokenString.user_id),
                                  UserRoleKey, tokenString.role))

\* AuthMiddleware at time t, for the Authorization header split at its spaces
\* (<<>> for no header): the header must be "Bearer" and a token, the token
\* must parse, and its user_id and role claims must be strings.  The error of
\* a parse is compared with jwt.ErrTokenExpired itself.
AuthMiddleware(c, authHeader, t) ==
    IF authHeader = <<>>
    THEN respondWithError(c, StatusUnauthorized, "missing authorization header")
    ELSE IF Len(authHeader) # 2 \/ authHeader[1] # "Bearer"
    THEN respondWithError(c, StatusUnauthorized, "invalid authorization header format")
    ELSE LET tokenString == authHeader[2]
             err == jwtParse(tokenString, t, FALSE, jwtErrSignatureInvalid)
         IN
         IF err # nil
         THEN IF err = jwtErrTokenExpired
              THEN respondWithError(c, StatusUnauthorized, "token expired")
              ELSE respondWithError(c, StatusUnauthorized, "invalid token")
         ELSE IF tokenString.user_id = NotAString
         THEN respondWithError(c, StatusUnauthorized, "invalid token claims")
         ELSE IF tokenString.role = RoleNotAString
         THEN respondWithError(c, StatusUnauthorized, "invalid token claims")
         ELSE ServeNext(WithValue(WithValue(c, UserIDKey, tokenString.user_id),
                                  UserRoleKey, tokenString.role))

\* RequireAdmin: the role of the context must be "admin".
RequireAdmin(c) ==
    LET got == GetUserRole(c) IN
    IF ~got.ok THEN respondWithError(c, StatusForbidden, "insufficient permissions")
    ELSE IF got.role # "admin"
    THEN respondWithError(c, StatusForbidden, "insufficient permissions")
    ELSE ServeNext(c)

\* RequireRole looking at the first allowed role only.
RequireRoleFirstOnly(allowedRoles, c) ==
    LET got == GetUserRole(c) IN
    IF ~got.ok THEN respondWithError(c, StatusForbidden, "insufficient permissions")
    ELSE IF ~(allowedRoles # <<>> /\ got.role = allowedRoles[1])
    THEN respondWithError(c, StatusForbidden, "insufficient permissions")
    ELSE ServeNext(c)

\* RequireRole: the role of the context must be one of allowedRoles.
RequireRole(allowedRoles, c) ==
    LET got == GetUserRole(c)
        allowed == \E i \in 1..Len(allowedRoles) : got.role = allowedRoles[i]
    IN
    IF ~got.ok THEN respondWithError(c, StatusForbidden, "insufficient permissions")
    ELSE IF ~allowed THEN respondWithError(c, StatusForbidden, "insufficient permissions")
    ELSE ServeNext(c)

\* ---------------------------------------------------------- handlers
\* UserHandler.Register: the status and message for the service's result.
RegisterAnswer(err) ==
    IF err = nil THEN [status |-> StatusCreated, message |-> ""]
    ELSE IF err = "user with this email already exists"
    THEN [status |-> StatusConflict, message |-> "user with this email already exists"]
    ELSE [status |-> StatusInternalServerError, message |-> "failed to register user"]

\* UserHandler.Login
LoginAnswer(err) ==
    IF err = nil THEN [status |-> StatusOK, message |-> ""]
    ELSE IF err = ErrInvalidCredentials
    THEN [status |-> StatusUnauthorized, message |-> "invalid email or password"]
    ELSE [status |-> StatusInternalServerError, message |-> "failed to login"]

\* UserHandler.Logout
LogoutAnswer(err) ==
    IF err = nil THEN [status |-> StatusOK, message |-> "logged out successfully"]
    ELSE [status |-> StatusInternalServerError, message |-> "failed to logout"]

\* UserHandler.RefreshToken
RefreshAnswer(err) ==
    IF err = nil THEN [status |-> StatusOK, message |-> ""]
    ELSE IF err = ErrInvalidToken
    THEN [status |-> StatusUnauthorized, message |-> "invalid refresh token"]
    ELSE IF err = ErrTokenExpired
    THEN [status |-> StatusUnauthorized, message |-> "refresh token expired"]
    ELSE [status |-> StatusInternalServerError, message |-> "failed to refresh token"]

\* The answer of a finished request: the service's results and the endpoint's
\* status and message.
Answer(err, access, refresh, user, http) ==
    [err |-> err, accessToken |-> access, refreshToken |-> refresh, user |-> user,
     status |-> http.status, message |-> http.message]


\* ------------------------------------------------------------- state
Init ==
    /\ users = <<>>
    /\ tokens = <<>>
    /\ now = 0
    /\ clockSteps = 0
    /\ calls = 0
    /\ pc = [p \in Procs |-> "idle"]
    /\ call = [p \in Procs |-> NoCall]
    /\ local = [p \in Procs |-> NoLocal]
    /\ resp = [p \in Procs |-> NoResp]
    /\ loggedOut = {}
    /\ request = NoRequest
    /\ ctx = NoContext
    /\ reply = NoReply
    /\ validated = NoValidated
    /\ config = NoConfig
    /\ counters = NoKeys
    /\ limiter = [p \in Procs |-> NoLimiter]
    /\ storeErrors = 0
    /\ passed = NoPasses
    /\ products = NoProducts
    /\ productCall = NoProductCall

\* Task p takes up a new request.
Begin(p, c) ==
    /\ pc[p] = "idle"
    /\ calls < MaxCalls
    /\ calls' = calls + 1
    /\ call' = [call EXCEPT ![p] = c]

\* Task p's request ends with answer a.
Finish(p, a) ==
    /\ pc' = [pc EXCEPT ![p] = "idle"]
    /\ local' = [local EXCEPT ![p] = NoLocal]
    /\ resp' = [resp EXCEPT ![p] = a]

\* Task p's request goes on at `at` with local variables l.
Goto(p, at, l) ==
    /\ pc' = [pc EXCEPT ![p] = at]
    /\ local' = [local EXCEPT ![p] = l]
    /\ resp' = [resp EXCEPT ![p] = NoResp]

\* The clock read d ticks after the step began; the clock has then advanced by d.
ReadClock(d) ==
    /\ d \in Drift
    /\ now' = now + d
    /\ clockSteps' = clockSteps + (IF d = 0 THEN 0 ELSE 1)

\* Register, up to the lookup by email: an existing user ends the request
\* with ErrUserAlreadyExists.
Register(p, email, password, firstName, lastName) ==
    /\ Begin(p, [NoCall EXCEPT !.op = "register", !.email = email,
                             !.firstName = firstName, !.lastName = lastName,
                             !.knownEmail = FindByEmail(email).err = nil])
    /\ LET found == FindByEmail(email) IN
       IF found.err = nil
       THEN Finish(p, Answer(ErrUserAlreadyExists, NoAccess, 0, NoUser,
                             RegisterAnswer(ErrUserAlreadyExists)))
       ELSE Goto(p, "register_create", [NoLocal EXCEPT !.password = password])
    /\ UNCHANGED <<users, tokens, now, clockSteps, loggedOut>>
    /\ UNCHANGED <<mwVars, rlVars, passed, catVars, storeErrors>>

\* Register making the first user of an empty table the administrator.
RegisterCreateFirstAdmin(p) ==
    /\ pc[p] = "register_create"
    /\ LET user == [id |-> Len(users) + 1, email |-> call[p].email,
                    passwordHash |-> hashPassword(local[p].password, Len(users) + 1),
                    firstName |-> call[p].firstName, lastName |-> call[p].lastName,
                    role |-> IF users = <<>> THEN "admin" ELSE "user"]
           err == UserCreateErr(user)
       IN IF err # nil
          THEN /\ Finish(p, Answer(Wrap("failed to create user", err), NoAccess, 0, NoUser,
                                   RegisterAnswer(Wrap("failed to create user", err))))
               /\ users' = users
          ELSE /\ Finish(p, Answer(nil, NoAccess, 0, user, RegisterAnswer(nil)))
               /\ users' = Append(users, user)
    /\ UNCHANGED <<tokens, now, clockSteps, calls, call, loggedOut>>
    /\ UNCHANGED <<mwVars, rlVars, passed, catVars, storeErrors>>

\* Register, from the password hash on: the user gets a fresh id, a salted
\* hash and the role "user", and is inserted; an error of the insert is
\* returned wrapped.
RegisterCreate(p) ==
    /\ pc[p] = "register_create"
    /\ LET user == [id |-> Len(users) + 1, email |-> call[p].email,
                    passwordHash |-> hashPassword(local[p].password, Len(users) + 1),
                    firstName |-> call[p].firstName, lastName |-> call[p].lastName,
                    role |-> "user"]
           err == UserCreateErr(user)
       IN IF err # nil
          THEN /\ Finish(p, Answer(Wrap("failed to create user", err), NoAccess, 0, NoUser,
                                   RegisterAnswer(Wrap("failed to create user", err))))
               /\ users' = users
          ELSE /\ Finish(p, Answer(nil, NoAccess, 0, user, RegisterAnswer(nil)))
               /\ users' = Append(users, user)
    /\ UNCHANGED <<tokens, now, clockSteps, calls, call, loggedOut>>
    /\ UNCHANGED <<mwVars, rlVars, passed, catVars, storeErrors>>

\* Login passing the repository's error for an unknown email on.
LoginErrRevealing(found, password) ==
    IF found.err # nil THEN found.err
    ELSE IF verifyPassword(found.user.passwordHash, password) # nil THEN ErrInvalidCredentials
    ELSE nil

\* Login answering every failure of the lookup like an unknown email.
LoginErrMaskingStore(found, password) ==
    IF found.err # nil THEN ErrInvalidCredentials
    ELSE IF verifyPassword(found.user.passwordHash, password) # nil THEN ErrInvalidCredentials
    ELSE nil

\* Login, the error it returns before any token is generated: for the result
\* `found` of the lookup by email and the password given.
LoginErr(found, password) ==
    IF found.err = ErrUserNotFound THEN ErrInvalidCredentials
    ELSE IF found.err # nil THEN Wrap("failed to find user", found.err)
    ELSE IF verifyPassword(found.user.passwordHash, password) # nil THEN ErrInvalidCredentials
    ELSE nil

\* Login, up to the access token: the lookup by email, the password check and
\* generateAccessToken with its two clock reads.
Login(p, email, password) ==
    /\ Begin(p, [NoCall EXCEPT !.op = "login", !.email = email,
                             !.knownEmail = FindByEmail(email).err = nil])
    /\ LET found == FindByEmail(email)
           err == LoginErr(found, password)
       IN
       IF err # nil
       THEN /\ Finish(p, Answer(err, NoAccess, 0, NoUser, LoginAnswer(err)))
            /\ UNCHANGED <<now, clockSteps>>
       ELSE \E d \in Drift :
            /\ ReadClock(d)
            /\ Goto(p, "login_token",
                    [NoLocal EXCEPT !.user = found.user,
                                    !.access = generateAccessToken(found.user, now, now + d)])
    /\ UNCHANGED <<users, tokens, loggedOut>>
    /\ UNCHANGED <<mwVars, rlVars, passed, catVars, storeErrors>>

\* generateRefreshToken: the row that Login inserts, with a fresh token
\* string, the expiry from a first clock read (t1) and the creation time from
\* a second one (t2).
generateRefreshToken(user, t1, t2) ==
    [userID |-> user.id, token |-> Len(tokens) + 1,
     expiresAt |-> t1 + RefreshTokenExpiration * SubSec,
     createdAt |-> t2, revoked |-> FALSE]

\* Login, from generateRefreshToken on: the refresh token is inserted and both
\* tokens are returned with the user.
LoginToken(p) ==
    /\ pc[p] = "login_token"
    /\ \E d \in Drift :
        /\ ReadClock(d)
        /\ LET refreshToken == generateRefreshToken(local[p].user, now, now + d) IN
            /\ tokens' = Append(tokens, refreshToken)
            /\ Finish(p, Answer(nil, local[p].access, refreshToken.token, local[p].user,
                                LoginAnswer(nil)))
    /\ UNCHANGED <<users, calls, call, loggedOut>>
    /\ UNCHANGED <<mwVars, rlVars, passed, catVars, storeErrors>>

\* Logout: the token is revoked; a token that is not in the table counts as
\* logged out.
Logout(p, token) ==
    /\ Begin(p, [NoCall EXCEPT !.op = "logout", !.token = token,
                             !.afterLogout = token \in loggedOut])
    /\ LET err == RevokeErr(token)
           out == IF err = nil \/ err = ErrRefreshTokenNotFound
                  THEN nil
                  ELSE Wrap("failed to revoke refresh token", err)
       IN /\ tokens' = RevokedTable(token)
          /\ Finish(p, Answer(out, NoAccess, 0, NoUser, LogoutAnswer(out)))
          /\ loggedOut' = IF out = nil /\ token # Forged THEN loggedOut \cup {token} ELSE loggedOut
    /\ UNCHANGED <<users, now, clockSteps>>
    /\ UNCHANGED <<mwVars, rlVars, passed, catVars, storeErrors>>

\* RefreshToken, the error it returns for the result `found` of the lookup of
\* the token.
RefreshLookupErr(found) ==
    IF found.err = ErrRefreshTokenNotFound \/ found.err = ErrRefreshTokenRevoked
    THEN ErrInvalidToken
    ELSE IF found.err # nil THEN Wrap("failed to find refresh token", found.err)
    ELSE nil

\* RefreshToken consuming the token it is given: a single-use refresh token.
RefreshTokenSingleUse(p, token) ==
    /\ Begin(p, [NoCall EXCEPT !.op = "refresh", !.token = token,
                               !.afterLogout = token \in loggedOut])
    /\ LET found == FindByToken(token)
           err == RefreshLookupErr(found)
       IN
       IF err # nil
       THEN /\ Finish(p, Answer(err, NoAccess, 0, NoUser, RefreshAnswer(err)))
            /\ tokens' = tokens
       ELSE /\ Goto(p, "refresh_user", [NoLocal EXCEPT !.rt = found.rt])
            /\ tokens' = RevokedTable(token)
    /\ UNCHANGED <<users, now, clockSteps, loggedOut>>
    /\ UNCHANGED <<mwVars, rlVars, passed, catVars, storeErrors>>

\* RefreshToken, up to the lookup of the token: an unknown and a revoked token
\* both end the request with ErrInvalidToken.
RefreshToken(p, token) ==
    /\ Begin(p, [NoCall EXCEPT !.op = "refresh", !.token = token,
                             !.afterLogout = token \in loggedOut])
    /\ LET found == FindByToken(token)
           err == RefreshLookupErr(found)
       IN
       IF err # nil
       THEN Finish(p, Answer(err, NoAccess, 0, NoUser, RefreshAnswer(err)))
       ELSE Goto(p, "refresh_user", [NoLocal EXCEPT !.rt = found.rt])
    /\ UNCHANGED <<users, tokens, now, clockSteps, loggedOut>>
    /\ UNCHANGED <<mwVars, rlVars, passed, catVars, storeErrors>>

\* The expiry check with the boundary on the wrong side.
ExpiredAtBoundary(t, expiresAt) == t >= expiresAt

\* time.Now().After(expiresAt)
Expired(t, expiresAt) == t > expiresAt

\* RefreshToken, from the expiry check on: the owner is looked up and a new
\* access token is generated for it.
RefreshUser(p) ==
    /\ pc[p] = "refresh_user"
    /\ IF Expired(now, local[p].rt.expiresAt)
       THEN /\ Finish(p, Answer(ErrTokenExpired, NoAccess, 0, NoUser, RefreshAnswer(ErrTokenExpired)))
            /\ UNCHANGED <<now, clockSteps>>
       ELSE LET found == FindByID(local[p].rt.userID) IN
            IF found.err # nil
            THEN /\ Finish(p, Answer(Wrap("failed to find user", found.err), NoAccess, 0, NoUser,
                                     RefreshAnswer(Wrap("failed to find user", found.err))))
                 /\ UNCHANGED <<now, clockSteps>>
            ELSE \E d \in Drift :
                 /\ ReadClock(d)
                 /\ Finish(p, Answer(nil, generateAccessToken(found.user, now, now + d), 0, NoUser,
                                     RefreshAnswer(nil)))
    /\ UNCHANGED <<users, tokens, calls, call, loggedOut>>
    /\ UNCHANGED <<mwVars, rlVars, passed, catVars, storeErrors>>

\* The role of a user is changed in the users table, outside the service.
SetRole(id, role) ==
    /\ id \in 1..Len(users)
    /\ users[id].role # role
    /\ calls < MaxCalls
    /\ calls' = calls + 1
    /\ users' = [users EXCEPT ![id].role = role]
    /\ UNCHANGED <<tokens, now, clockSteps, pc, call, local, resp, loggedOut>>
    /\ UNCHANGED <<mwVars, rlVars, passed, catVars, storeErrors>>

\* The clock advances: by a tick or, once, past the lifetime of every token
\* issued so far.
Tick(d) ==
    /\ clockSteps < MaxClockSteps
    /\ d > 1 => now < d
    /\ clockSteps' = clockSteps + 1
    /\ now' = now + d
    /\ UNCHANGED <<users, tokens, calls, pc, call, local, resp, loggedOut>>
    /\ UNCHANGED <<mwVars, rlVars, passed, catVars, storeErrors>>

\* The token strings a request may carry: those minted so far and the forged one.
TokenStrings == {Forged} \cup (1..Len(tokens))

\* What the clock advances by in one step: a tick, or a refresh token's whole
\* lifetime (which outlasts every access token as well).
ClockJumps == {1, RefreshTokenExpiration * SubSec}

Next ==
    \/ \E p \in Procs, email \in Emails, password \in RegisterPasswords,
          firstName \in FirstNames, lastName \in LastNames :
            Register(p, email, password, firstName, lastName)
    \/ \E p \in Procs : RegisterCreate(p)
    \/ \E p \in Procs, email \in Emails, password \in Passwords : Login(p, email, password)
    \/ \E p \in Procs : LoginToken(p)
    \/ \E p \in Procs, token \in TokenStrings : Logout(p, token)
    \/ \E p \in Procs, token \in TokenStrings : RefreshToken(p, token)
    \/ \E p \in Procs : RefreshUser(p)
    \/ \E id \in 1..Len(users), role \in Roles : SetRole(id, role)
    \/ \E d \in ClockJumps : Tick(d)

Spec == Init /\ [][Next]_vars

\* ------------------------------------------------- the middleware chain
\* One request goes through the middleware of its route, one after the other,
\* to the handler; the clock runs meanwhile.  The request is drawn from
\* Requests, the users table from Stores.
svcVars == <<users, tokens, calls, pc, call, local, resp, loggedOut>>

\* The access token Login issues at time 0 to user 1 with this role.
Genuine(role) == generateAccessToken([NoUser EXCEPT !.id = 1, !.role = role], 0, 0)
\* The tokens a request may carry: no token at all, a genuine one, and a
\* genuine one with its algorithm, key, user_id, role or exp changed.
RequestTokens ==
    {NoAccess}
    \cup UNION {
        {g}
        \cup {[g EXCEPT !.alg = alg] : alg \in SigningMethods \cup {"XS256"}}
        \cup {[g EXCEPT !.sig = "other-secret"]}
        \cup {[g EXCEPT !.user_id = id] : id \in {2, NotAUUID, NotAString}}
        \cup {[g EXCEPT !.role = RoleNotAString]}
        \cup {[g EXCEPT !.exp = exp] : exp \in {NilDate, 1}}
        : g \in {Genuine(role) : role \in Roles}}
\* The Authorization headers, split at their spaces.
AuthHeaders ==
    {<<>>, <<"Bearer">>}
    \cup {<<"Bearer", tokenString>> : tokenString \in RequestTokens}
    \cup {<<scheme, Genuine(role)>> : scheme \in {"Basic", "bearer"}, role \in Roles}
    \cup {<<"Bearer", Genuine(role), "x">> : role \in Roles}
\* The routes: which middleware a request passes before its handler.
Routes ==
    {<<"AuthMiddleware">>, <<"AuthMiddleware", "RequireAdmin">>,
     <<"AuthMiddleware", "RequireRole">>, <<"RequireAdmin">>, <<"RequireRole">>}
AllowedRoles == {<<>>, <<"admin">>, <<"user", "admin">>}
Requests ==
    {r \in [header : AuthHeaders, route : Routes, allowedRoles : AllowedRoles] :
        r.allowedRoles # <<>> => \E i \in 1..Len(r.route) : r.route[i] = "RequireRole"}
\* The users tables: empty, or holding user 1.
Stores ==
    {<<>>,
     <<[id |-> 1, email |-> "alice@x.com", passwordHash |-> hashPassword("Secret123", 1),
        firstName |-> "John", lastName |-> "Doe", role |-> "user"]>>}

InitMiddleware ==
    /\ users \in Stores
    /\ tokens = <<>>
    /\ now = 0
    /\ clockSteps = 0
    /\ calls = 0
    /\ pc = [p \in Procs |-> "idle"]
    /\ call = [p \in Procs |-> NoCall]
    /\ local = [p \in Procs |-> NoLocal]
    /\ resp = [p \in Procs |-> NoResp]
    /\ loggedOut = {}
    /\ request \in Requests
    /\ ctx = NoContext
    /\ reply = [NoReply EXCEPT !.at = 1]
    /\ validated = NoValidated
    /\ config = NoConfig
    /\ counters = NoKeys
    /\ limiter = [p \in Procs |-> NoLimiter]
    /\ storeErrors = 0
    /\ passed = NoPasses
    /\ products = NoProducts
    /\ productCall = NoProductCall

\* The request has reached the middleware `name` of its route.
At(name) ==
    /\ reply.status = 0
    /\ reply.at \in 1..Len(request.route)
    /\ request.route[reply.at] = name

\* The middleware has run: the request goes on to the next one, or ends with
\* the answer written.
Served(result) ==
    /\ ctx' = result.ctx
    /\ reply' = IF result.next
                THEN [reply EXCEPT !.at = reply.at + 1]
                ELSE [reply EXCEPT !.status = result.status, !.message = result.message]
    /\ UNCHANGED <<request, validated, now, clockSteps>>
    /\ UNCHANGED <<svcVars, rlVars, passed, catVars, storeErrors>>

ServeAuthMiddleware ==
    /\ At("AuthMiddleware")
    /\ Served(AuthMiddleware(ctx, request.header, now))

ServeRequireAdmin ==
    /\ At("RequireAdmin")
    /\ Served(RequireAdmin(ctx))

ServeRequireRole ==
    /\ At("RequireRole")
    /\ Served(RequireRole(request.allowedRoles, ctx))

\* The handler behind the middleware is invoked and answers.
ServeHandler ==
    /\ reply.status = 0
    /\ reply.at = Len(request.route) + 1
    /\ reply' = [reply EXCEPT !.status = StatusOK, !.handled = TRUE]
    /\ UNCHANGED <<request, ctx, validated, now, clockSteps>>
    /\ UNCHANGED <<svcVars, rlVars, passed, catVars, storeErrors>>

\* The service's ValidateToken is called with the token of the request.
CallValidateToken ==
    /\ validated = NoValidated
    /\ Len(request.header) >= 2
    /\ validated' = ValidateToken(request.header[2], now)
    /\ UNCHANGED <<request, ctx, reply, now, clockSteps>>
    /\ UNCHANGED <<svcVars, rlVars, passed, catVars, storeErrors>>

NextMiddleware ==
    \/ ServeAuthMiddleware
    \/ ServeRequireAdmin
    \/ ServeRequireRole
    \/ ServeHandler
    \/ CallValidateToken
    \/ \E d \in ClockJumps : Tick(d)

SpecMiddleware == InitMiddleware /\ [][NextMiddleware]_vars


\* ------------------------------------------------- the rate limiter
\* RateLimitMiddleware in front of a handler that answers 200, as its tests
\* set it up.  Each task serves one request after the other; a request is a
\* remote address and a context, and takes one step per call of the counter
\* store.  Any call of the store may return an error.
Second == 1000000000
\* A tick of the clock, as a time.Duration.
TickNanos == Second \div SubSec
RemoteAddrs == {"192.168.1.100", "192.168.1.101"}
\* The contexts a request arrives with: no user, or user 1 behind an auth gate.
Contexts == {NoContext, WithValue(NoContext, UserIDKey, 1)}
\* The requests: user 1 from either address, and no user from the first one.
RateLimitRequests ==
    {r \in [remoteAddr : RemoteAddrs, ctx : Contexts] :
        r.ctx = NoContext => r.remoteAddr = "192.168.1.100"}
Configs ==
    {[RequestsPerWindow |-> n, Window |-> Second, KeyPrefix |-> "test_rate_limit"] :
        n \in 1..MaxRequestsPerWindow}
\* The outcomes of a store call: it fails (TRUE) or not.
Unavailable == IF storeErrors < MaxStoreErrors THEN {FALSE, TRUE} ELSE {FALSE}

\* The client identifier: the user ID of the context if there is one, else
\* the remote address.
ClientID(remoteAddr, c) ==
    IF GetUserID(c).ok THEN ToString(GetUserID(c).userID) ELSE remoteAddr
\* fmt.Sprintf("%s:%s", config.KeyPrefix, clientID)
Key(cfg, clientID) == cfg.KeyPrefix \o ":" \o clientID

\* The key is in the store at time t: it was set and has not expired.
Exists(key, t) ==
    /\ key \in DOMAIN counters
    /\ counters[key].count > 0
    /\ counters[key].expiresAt = NoExpiry \/ t < counters[key].expiresAt
\* INCR that gives a key that has an expiry one more tick to live.
IncrProlonging(key, t) ==
    LET old == IF key \in DOMAIN counters THEN counters[key] ELSE NoCounter
        new == IF Exists(key, t)
               THEN [old EXCEPT !.count = old.count + 1,
                                !.expiresAt = IF old.expiresAt = NoExpiry THEN NoExpiry
                                              ELSE old.expiresAt + 1]
               ELSE [count |-> 1, expiresAt |-> NoExpiry, window |-> old.window + 1]
    IN (key :> new) @@ counters
\* INCR: the store afterwards.  A key that is not there is created with 1 and
\* without expiry.
Incr(key, t) ==
    LET old == IF key \in DOMAIN counters THEN counters[key] ELSE NoCounter
        new == IF Exists(key, t)
               THEN [old EXCEPT !.count = old.count + 1]
               ELSE [count |-> 1, expiresAt |-> NoExpiry, window |-> old.window + 1]
    IN (key :> new) @@ counters
\* EXPIRE: the store afterwards.  Nothing happens to a key that is not there.
Expire(key, expiration, t) ==
    IF Exists(key, t)
    THEN [counters EXCEPT ![key].expiresAt = t + (expiration \div TickNanos)]
    ELSE counters
\* TTL, as the client returns it: -2ns for a key that is not there, -1ns for a
\* key without expiry, else the remaining time rounded to whole seconds.
TTL(key, t) ==
    IF ~Exists(key, t) THEN -2
    ELSE IF counters[key].expiresAt = NoExpiry THEN -1
    ELSE LET ms == ((counters[key].expiresAt - t) * TickNanos) \div 1000000
         IN ((ms + 500) \div 1000) * Second

\* int(d.Seconds()): the whole seconds of a duration, rounded towards zero.
Seconds(d) == IF d >= 0 THEN d \div Second ELSE 0 - ((0 - d) \div Second)
\* time.Now().Add(d).Unix() at time t.
Unix(t, d) == (t \div SubSec) + ((((t % SubSec) * TickNanos) + d) \div Second)

\* The check of the limit with the boundary on the wrong side.
LimitExceededAtLimit(count, cfg) == count >= cfg.RequestsPerWindow
\* The check of the limit letting one request more through.
LimitExceededOneLate(count, cfg) == count > cfg.RequestsPerWindow + 1
\* count > int64(config.RequestsPerWindow)
LimitExceeded(count, cfg) == count > cfg.RequestsPerWindow

\* The store's error answered with 429.
FailClosed(l) == [l EXCEPT !.at = "idle", !.status = StatusTooManyRequests]
\* The increment failed: the request goes on to the handler, no header set.
FailOpen(l) == [l EXCEPT !.at = "idle", !.handled = TRUE, !.status = StatusOK]
\* The limit is exceeded: 429 with the four headers.
Reject(l, cfg, ttl, t) ==
    [l EXCEPT !.at = "idle", !.status = StatusTooManyRequests,
              !.limit = cfg.RequestsPerWindow, !.remaining = 0,
              !.reset = Unix(t, ttl), !.retryAfter = Seconds(ttl)]
\* The limit is not exceeded: the two headers, and the handler.
Allow(l, cfg) ==
    [l EXCEPT !.at = "idle", !.handled = TRUE, !.status = StatusOK,
              !.limit = cfg.RequestsPerWindow,
              !.remaining = cfg.RequestsPerWindow - l.count]
\* From the check of the limit on: the request goes on to ask for the TTL, or
\* is allowed.
CheckLimit(l, cfg) ==
    IF LimitExceeded(l.count, cfg) THEN [l EXCEPT !.at = "ttl"] ELSE Allow(l, cfg)

InitRateLimit ==
    /\ users = <<>>
    /\ tokens = <<>>
    /\ now = 0
    /\ clockSteps = 0
    /\ calls = 0
    /\ pc = [p \in Procs |-> "idle"]
    /\ call = [p \in Procs |-> NoCall]
    /\ local = [p \in Procs |-> NoLocal]
    /\ resp = [p \in Procs |-> NoResp]
    /\ loggedOut = {}
    /\ request = NoRequest
    /\ ctx = NoContext
    /\ reply = NoReply
    /\ validated = NoValidated
    /\ config \in Configs
    /\ counters = NoKeys
    /\ limiter = [p \in Procs |-> NoLimiter]
    /\ storeErrors = 0
    /\ passed = NoPasses
    /\ products = NoProducts
    /\ productCall = NoProductCall

\* RateLimitMiddleware, up to the increment: an error of the store lets the
\* request through; the first hit goes on to set the expiry.
RateLimitMiddleware(p, remoteAddr, c) ==
    /\ limiter[p].at = "idle"
    /\ calls < MaxCalls
    /\ calls' = calls + 1
    /\ LET key == Key(config, ClientID(remoteAddr, c))
           l == [NoLimiter EXCEPT !.key = key]
       IN \E failed \in Unavailable :
            IF failed
            THEN /\ storeErrors' = storeErrors + 1
                 /\ counters' = counters
                 /\ limiter' = [limiter EXCEPT ![p] = FailOpen(l)]
            ELSE LET after == Incr(key, now)
                     counted == [l EXCEPT !.count = after[key].count, !.counted = TRUE,
                                          !.window = after[key].window]
                 IN /\ storeErrors' = storeErrors
                    /\ counters' = after
                    /\ limiter' = [limiter EXCEPT ![p] =
                                      IF counted.count = 1
                                      THEN [counted EXCEPT !.at = "expire"]
                                      ELSE CheckLimit(counted, config)]
    /\ UNCHANGED <<users, tokens, now, clockSteps, pc, call, local, resp, loggedOut, config>>
    /\ UNCHANGED <<mwVars, catVars>>

\* RateLimitMiddleware, the expiry of the first hit: the result of the call is
\* not looked at.
RateLimitExpire(p) ==
    /\ limiter[p].at = "expire"
    /\ \E failed \in Unavailable :
        /\ storeErrors' = storeErrors + (IF failed THEN 1 ELSE 0)
        /\ counters' = IF failed THEN counters ELSE Expire(limiter[p].key, config.Window, now)
    /\ limiter' = [limiter EXCEPT ![p] = CheckLimit(limiter[p], config)]
    /\ UNCHANGED <<config, now, clockSteps>>
    /\ UNCHANGED <<svcVars, mwVars, catVars>>

\* RateLimitMiddleware, over the limit: the TTL of the key is asked for, the
\* window taken in its place if that fails, and the request rejected.
RateLimitTTL(p) ==
    /\ limiter[p].at = "ttl"
    /\ \E failed \in Unavailable :
        /\ storeErrors' = storeErrors + (IF failed THEN 1 ELSE 0)
        /\ LET ttl == IF failed THEN config.Window ELSE TTL(limiter[p].key, now)
           IN limiter' = [limiter EXCEPT ![p] = Reject(limiter[p], config, ttl, now)]
    /\ UNCHANGED <<config, counters, now, clockSteps>>
    /\ UNCHANGED <<svcVars, mwVars, catVars>>

NextRateLimit ==
    \/ \E p \in Procs, r \in RateLimitRequests :
            RateLimitMiddleware(p, r.remoteAddr, r.ctx) /\ UNCHANGED passed
    \/ \E p \in Procs : RateLimitExpire(p) /\ UNCHANGED passed
    \/ \E p \in Procs : RateLimitTTL(p) /\ UNCHANGED passed
    \/ Tick(1)

SpecRateLimit == InitRateLimit /\ [][NextRateLimit]_vars

\* The rate limiter with the requests it lets through written down: `passed`
\* holds, for each key, when a request with that key was handed to the
\* handler, whether it had been counted, and in which window of the key.
Passing(p) ==
    passed' =
        IF limiter'[p].at = "idle" /\ limiter'[p].handled
        THEN LET key == limiter'[p].key
                 before == IF key \in DOMAIN passed THEN passed[key] ELSE <<>>
             IN (key :> Append(before, [at |-> now, counted |-> limiter'[p].counted,
                                        window |-> limiter'[p].window]))
                @@ passed
        ELSE passed

\* The requests whose passing is written down: those of one client, which come
\* without a user from the first address.
PassingRequests == {r \in RateLimitRequests : r.ctx = NoContext}

NextPassing ==
    \/ \E p \in Procs, r \in PassingRequests :
            RateLimitMiddleware(p, r.remoteAddr, r.ctx) /\ Passing(p)
    \/ \E p \in Procs : RateLimitExpire(p) /\ Passing(p)
    \/ \E p \in Procs : RateLimitTTL(p) /\ UNCHANGED passed
    \/ Tick(1)

SpecPassing == InitRateLimit /\ [][NextPassing]_vars


\* ------------------------------------------------ the assembled server
\* The router NewServer builds, serving one request after the other: a request
\* passes the middleware of the router and of its route's group, then its
\* handler, which calls the service on the two tables.
\* The empty token string.
EmptyToken == -1
\* No user profile in the response.
NoProfile == [id |-> 0, email |-> "", firstName |-> "", lastName |-> "", role |-> ""]
\* The body {}: every field at its zero value.
NoBody == [json |-> TRUE, email |-> "", password |-> "", firstName |-> "", lastName |-> "",
           refreshToken |-> EmptyToken]
\* Nothing written by the server.
NoServerReply == [at |-> 0, status |-> 0, message |-> "", handled |-> FALSE, payload |-> NoProfile]

\* NewServer: the middleware of the router, in the order of router.Use.
NewServer == <<"RequestID", "RealIP", "Recoverer", "Compress", "ErrorHandlingMiddleware">>
\* RegisterRoutes: the middleware of the group each route is in.
RegisterRoutes ==
    [register |-> <<>>, login |-> <<>>, refresh |-> <<>>,
     logout |-> <<"AuthMiddleware">>, profile |-> <<"AuthMiddleware">>]
\* What a request to the endpoint passes before its handler.
Router(endpoint) == NewServer \o RegisterRoutes[endpoint]

\* validate:"min=n" on a string
Min(str, n) == Len(str) >= n
\* validate:"email": the well-formed addresses are those of Emails.
IsEmail(str) == str \in Emails
\* ValidateRequest: the fields that fail, each with the first tag it fails.
ValidateRequest(endpoint, v) ==
    LET failed(field, tag) == {[field |-> field, tag |-> tag]}
        email == IF v.email = "" THEN failed("Email", "required")
                 ELSE IF ~IsEmail(v.email) THEN failed("Email", "email") ELSE {}
        password == IF v.password = "" THEN failed("Password", "required") ELSE {}
        min == IF v.password # "" /\ ~Min(v.password, 8) THEN failed("Password", "min") ELSE {}
        firstName == IF v.firstName = "" THEN failed("FirstName", "required") ELSE {}
        lastName == IF v.lastName = "" THEN failed("LastName", "required") ELSE {}
        refreshToken == IF v.refreshToken = EmptyToken THEN failed("RefreshToken", "required")
                        ELSE {}
    IN CASE endpoint = "register" -> email \cup password \cup min \cup firstName \cup lastName
         [] endpoint = "login" -> email \cup password
         [] endpoint = "refresh" -> refreshToken
         [] OTHER -> {}
\* DecodeAndValidate: the error of the JSON decoder, or that of the validator
\* with the fields that failed.
DecodeAndValidate(endpoint, body) ==
    IF ~body.json THEN [err |-> "invalid character", errors |-> {}]
    ELSE LET errors == ValidateRequest(endpoint, body) IN
         [err |-> IF errors = {} THEN nil ELSE "validation", errors |-> errors]

\* What a handler has done: the response written and the tables afterwards.
Respond(statusCode, message) ==
    [status |-> statusCode, message |-> message, payload |-> NoProfile,
     users |-> users, tokens |-> tokens]
\* The handlers' answer to a request that does not decode or validate.
BadRequest(decoded) ==
    IF decoded.errors # {} THEN Respond(StatusBadRequest, "validation failed")
    ELSE Respond(StatusBadRequest, "invalid request body")
\* UserProfile{...}
UserProfile(user) ==
    [id |-> user.id, email |-> user.email, firstName |-> user.firstName,
     lastName |-> user.lastName, role |-> user.role]

\* UserHandler.Register with the service's Register.
HandleRegister(body) ==
    LET decoded == DecodeAndValidate("register", body)
        found == FindByEmail(body.email)
        user == [id |-> Len(users) + 1, email |-> body.email,
                 passwordHash |-> hashPassword(body.password, Len(users) + 1),
                 firstName |-> body.firstName, lastName |-> body.lastName,
                 role |-> "user"]
        err == IF found.err = nil THEN ErrUserAlreadyExists
               ELSE IF UserCreateErr(user) # nil
               THEN Wrap("failed to create user", UserCreateErr(user))
               ELSE nil
        answer == RegisterAnswer(err)
    IN IF decoded.err # nil THEN BadRequest(decoded)
       ELSE IF err # nil THEN Respond(answer.status, answer.message)
       ELSE [Respond(answer.status, answer.message) EXCEPT
                !.payload = UserProfile(user), !.users = Append(users, user)]

\* UserHandler.Login with the service's Login, at time t.
HandleLogin(body, t) ==
    LET decoded == DecodeAndValidate("login", body)
        found == FindByEmail(body.email)
        err == LoginErr(found, body.password)
        answer == LoginAnswer(err)
    IN IF decoded.err # nil THEN BadRequest(decoded)
       ELSE IF err # nil THEN Respond(answer.status, answer.message)
       ELSE [Respond(answer.status, answer.message) EXCEPT
                !.payload = UserProfile(found.user),
                !.tokens = Append(tokens, generateRefreshToken(found.user, t, t))]

\* UserHandler.RefreshToken with the service's RefreshToken, at time t.
HandleRefreshToken(body, t) ==
    LET decoded == DecodeAndValidate("refresh", body)
        found == FindByToken(body.refreshToken)
        err == IF RefreshLookupErr(found) # nil THEN RefreshLookupErr(found)
               ELSE IF Expired(t, found.rt.expiresAt) THEN ErrTokenExpired
               ELSE IF FindByID(found.rt.userID).err # nil
               THEN Wrap("failed to find user", FindByID(found.rt.userID).err)
               ELSE nil
        answer == RefreshAnswer(err)
    IN IF decoded.err # nil THEN BadRequest(decoded)
       ELSE Respond(answer.status, answer.message)

\* UserHandler.Logout with the service's Logout: the body is decoded, not
\* validated.
HandleLogout(body) ==
    LET revoked == RevokeErr(body.refreshToken)
        err == IF revoked = nil \/ revoked = ErrRefreshTokenNotFound THEN nil
               ELSE Wrap("failed to revoke refresh token", revoked)
        answer == LogoutAnswer(err)
    IN IF ~body.json THEN Respond(StatusBadRequest, "invalid request body")
       ELSE [Respond(answer.status, answer.message) EXCEPT
                !.tokens = RevokedTable(body.refreshToken)]

\* UserHandler.GetProfile with the service's GetUserByID.
HandleGetProfile(c) ==
    LET got == GetUserID(c)
        found == FindByID(got.userID)
    IN IF ~got.ok THEN Respond(StatusUnauthorized, "unauthorized")
       ELSE IF got.userID = NotAUUID THEN Respond(StatusBadRequest, "invalid user ID")
       ELSE IF found.err # nil
       THEN Respond(StatusInternalServerError, "failed to get user profile")
       ELSE [Respond(StatusOK, "") EXCEPT !.payload = UserProfile(found.user)]

\* The bodies of a registration: well-formed ones, ones with one field
\* missing or malformed, and one that is not JSON.
RegisterBodies ==
    LET good == {[NoBody EXCEPT !.email = email, !.password = "Secret123",
                                !.firstName = "John", !.lastName = "Doe"] : email \in Emails}
        g == [NoBody EXCEPT !.email = "bob@x.com", !.password = "Secret123",
                            !.firstName = "John", !.lastName = "Doe"]
    IN good \cup {[g EXCEPT !.email = ""], [g EXCEPT !.email = "bob.x.com"],
                  [g EXCEPT !.password = ""], [g EXCEPT !.password = "Secret1"],
                  [g EXCEPT !.firstName = ""], [g EXCEPT !.lastName = ""],
                  [g EXCEPT !.json = FALSE]}
LoginBodies ==
    {[NoBody EXCEPT !.email = "alice@x.com", !.password = password] :
        password \in Passwords \cup {""}}
\* The bodies that carry a refresh token, and the body {}.
TokenBodies ==
    {[NoBody EXCEPT !.refreshToken = token] : token \in TokenStrings \cup {EmptyToken}}
Bodies(endpoint) ==
    CASE endpoint = "register" -> RegisterBodies
      [] endpoint = "login" -> LoginBodies
      [] endpoint = "refresh" -> TokenBodies
      [] endpoint = "logout" -> TokenBodies \cup {[NoBody EXCEPT !.json = FALSE]}
      [] OTHER -> {NoBody}
\* The Authorization headers: none, or the access token of user 1.
ServerHeaders == {<<>>, <<"Bearer", Genuine("user")>>}
ServerRequests ==
    UNION {{[header |-> header, route |-> Router(endpoint), allowedRoles |-> <<>>,
             endpoint |-> endpoint, body |-> body] :
                header \in ServerHeaders, body \in Bodies(endpoint)} :
           endpoint \in DOMAIN RegisterRoutes}

InitServer ==
    /\ users = <<>>
    /\ tokens = <<>>
    /\ now = 0
    /\ clockSteps = 0
    /\ calls = 0
    /\ pc = [p \in Procs |-> "idle"]
    /\ call = [p \in Procs |-> NoCall]
    /\ local = [p \in Procs |-> NoLocal]
    /\ resp = [p \in Procs |-> NoResp]
    /\ loggedOut = {}
    /\ request = NoRequest
    /\ ctx = NoContext
    /\ reply = NoServerReply
    /\ validated = NoValidated
    /\ config = NoConfig
    /\ counters = NoKeys
    /\ limiter = [p \in Procs |-> NoLimiter]
    /\ storeErrors = 0
    /\ passed = NoPasses
    /\ products = NoProducts
    /\ productCall = NoProductCall

\* A request arrives when the one before it has been answered.
Arrive(r) ==
    /\ ~(request # NoRequest /\ reply.status = 0)
    /\ calls < MaxCalls
    /\ calls' = calls + 1
    /\ request' = r
    /\ ctx' = NoContext
    /\ reply' = [NoServerReply EXCEPT !.at = 1]
    /\ UNCHANGED <<users, tokens, now, clockSteps, pc, call, local, resp, loggedOut, validated>>
    /\ UNCHANGED <<rlVars, passed, catVars, storeErrors>>

\* A middleware of the router: each passes the request on.
ServeRouterMiddleware ==
    /\ \E i \in 1..Len(NewServer) : At(NewServer[i])
    /\ Served(ServeNext(ctx))

\* The handler of the route is called.
ServeEndpoint ==
    /\ request # NoRequest
    /\ reply.status = 0
    /\ reply.at = Len(request.route) + 1
    /\ LET result == CASE request.endpoint = "register" -> HandleRegister(request.body)
                       [] request.endpoint = "login" -> HandleLogin(request.body, now)
                       [] request.endpoint = "refresh" -> HandleRefreshToken(request.body, now)
                       [] request.endpoint = "logout" -> HandleLogout(request.body)
                       [] OTHER -> HandleGetProfile(ctx)
       IN /\ reply' = [reply EXCEPT !.status = result.status, !.message = result.message,
                                    !.handled = TRUE, !.payload = result.payload]
          /\ users' = result.users
          /\ tokens' = result.tokens
    /\ UNCHANGED <<now, clockSteps, calls, pc, call, local, resp, loggedOut>>
    /\ UNCHANGED <<request, ctx, validated, rlVars, passed, catVars, storeErrors>>

NextServer ==
    \/ \E r \in ServerRequests : Arrive(r)
    \/ ServeRouterMiddleware
    \/ ServeAuthMiddleware
    \/ ServeEndpoint
    \/ \E d \in ClockJumps : Tick(d)

SpecServer == InitServer /\ [][NextServer]_vars


\* --------------------------------------------- the store unavailable
\* The service with a database that may fail: any call of a repository may
\* return the driver's error, wrapped by the repository.
ErrStore == "driver: bad connection"
FindByEmailUnavailable ==
    [user |-> NoUser, err |-> Wrap("failed to find user by email", ErrStore)]
FindByIDUnavailable ==
    [user |-> NoUser, err |-> Wrap("failed to find user by ID", ErrStore)]
UserCreateUnavailable == Wrap("failed to create user", ErrStore)
FindByTokenUnavailable ==
    [rt |-> NoRefresh, err |-> Wrap("failed to find refresh token", ErrStore)]
TokenCreateUnavailable == Wrap("failed to create refresh token", ErrStore)
RevokeUnavailable == Wrap("failed to revoke refresh token", ErrStore)

\* One more store call has failed.
StoreError ==
    /\ storeErrors < MaxStoreErrors
    /\ storeErrors' = storeErrors + 1

\* Register, the error it returns for the result `found` of the lookup by email.
RegisterLookupErr(found) ==
    IF found.err # nil /\ found.err # ErrUserNotFound
    THEN Wrap("failed to check existing user", found.err)
    ELSE IF found.user # NoUser THEN ErrUserAlreadyExists
    ELSE nil

\* Register whose lookup by email fails.
RegisterUnavailable(p, email, password, firstName, lastName) ==
    /\ StoreError
    /\ Begin(p, [NoCall EXCEPT !.op = "register", !.email = email,
                             !.firstName = firstName, !.lastName = lastName,
                             !.knownEmail = FindByEmail(email).err = nil])
    /\ LET err == RegisterLookupErr(FindByEmailUnavailable) IN
       Finish(p, Answer(err, NoAccess, 0, NoUser, RegisterAnswer(err)))
    /\ UNCHANGED <<users, tokens, now, clockSteps, loggedOut>>
    /\ UNCHANGED <<mwVars, rlVars, passed, catVars>>

\* Register whose insert fails.
RegisterCreateUnavailable(p) ==
    /\ StoreError
    /\ pc[p] = "register_create"
    /\ LET err == Wrap("failed to create user", UserCreateUnavailable) IN
       Finish(p, Answer(err, NoAccess, 0, NoUser, RegisterAnswer(err)))
    /\ UNCHANGED <<users, tokens, now, clockSteps, calls, call, loggedOut>>
    /\ UNCHANGED <<mwVars, rlVars, passed, catVars>>

\* Login whose lookup by email fails.
LoginUnavailable(p, email, password) ==
    /\ StoreError
    /\ Begin(p, [NoCall EXCEPT !.op = "login", !.email = email,
                             !.knownEmail = FindByEmail(email).err = nil])
    /\ LET err == LoginErr(FindByEmailUnavailable, password) IN
       Finish(p, Answer(err, NoAccess, 0, NoUser, LoginAnswer(err)))
    /\ UNCHANGED <<users, tokens, now, clockSteps, loggedOut>>
    /\ UNCHANGED <<mwVars, rlVars, passed, catVars>>

\* Login whose insert of the refresh token fails: the access token it has
\* generated is dropped.
LoginTokenUnavailable(p) ==
    /\ StoreError
    /\ pc[p] = "login_token"
    /\ \E d \in Drift : ReadClock(d)
    /\ LET err == Wrap("failed to generate refresh token", TokenCreateUnavailable) IN
       Finish(p, Answer(err, NoAccess, 0, NoUser, LoginAnswer(err)))
    /\ UNCHANGED <<users, tokens, calls, call, loggedOut>>
    /\ UNCHANGED <<mwVars, rlVars, passed, catVars>>

\* Logout whose update fails; the update may have reached the table all the same.
LogoutUnavailable(p, token) ==
    /\ StoreError
    /\ Begin(p, [NoCall EXCEPT !.op = "logout", !.token = token,
                             !.afterLogout = token \in loggedOut])
    /\ LET err == Wrap("failed to revoke refresh token", RevokeUnavailable) IN
       Finish(p, Answer(err, NoAccess, 0, NoUser, LogoutAnswer(err)))
    /\ tokens' \in {tokens, RevokedTable(token)}
    /\ UNCHANGED <<users, now, clockSteps, loggedOut>>
    /\ UNCHANGED <<mwVars, rlVars, passed, catVars>>

\* RefreshToken whose lookup of the token fails.
RefreshTokenUnavailable(p, token) ==
    /\ StoreError
    /\ Begin(p, [NoCall EXCEPT !.op = "refresh", !.token = token,
                             !.afterLogout = token \in loggedOut])
    /\ LET err == RefreshLookupErr(FindByTokenUnavailable) IN
       Finish(p, Answer(err, NoAccess, 0, NoUser, RefreshAnswer(err)))
    /\ UNCHANGED <<users, tokens, now, clockSteps, loggedOut>>
    /\ UNCHANGED <<mwVars, rlVars, passed, catVars>>

\* RefreshToken whose lookup of the owner fails.
RefreshUserUnavailable(p) ==
    /\ StoreError
    /\ pc[p] = "refresh_user"
    /\ ~Expired(now, local[p].rt.expiresAt)
    /\ LET err == Wrap("failed to find user", FindByIDUnavailable.err) IN
       Finish(p, Answer(err, NoAccess, 0, NoUser, RefreshAnswer(err)))
    /\ UNCHANGED <<users, tokens, now, clockSteps, calls, call, loggedOut>>
    /\ UNCHANGED <<mwVars, rlVars, passed, catVars>>

NextUnavailable ==
    \/ \E p \in Procs, email \in Emails, password \in RegisterPasswords,
          firstName \in FirstNames, lastName \in LastNames :
            Register(p, email, password, firstName, lastName)
    \/ \E p \in Procs, email \in Emails, password \in RegisterPasswords,
          firstName \in FirstNames, lastName \in LastNames :
            RegisterUnavailable(p, email, password, firstName, lastName)
    \/ \E p \in Procs : RegisterCreate(p)
    \/ \E p \in Procs : RegisterCreateUnavailable(p)
    \/ \E p \in Procs, email \in Emails, password \in Passwords : Login(p, email, password)
    \/ \E p \in Procs, email \in Emails, password \in Passwords :
            LoginUnavailable(p, email, password)
    \/ \E p \in Procs : LoginToken(p)
    \/ \E p \in Procs : LoginTokenUnavailable(p)
    \/ \E p \in Procs, token \in TokenStrings : Logout(p, token)
    \/ \E p \in Procs, token \in TokenStrings : LogoutUnavailable(p, token)
    \/ \E p \in Procs, token \in TokenStrings : RefreshToken(p, token)
    \/ \E p \in Procs, token \in TokenStrings : RefreshTokenUnavailable(p, token)
    \/ \E p \in Procs : RefreshUser(p)
    \/ \E p \in Procs : RefreshUserUnavailable(p)

SpecUnavailable == Init /\ [][NextUnavailable]_vars


\* ------------------------------------- sessions at the auth gate
\* The service and the auth gate of NewServer together: the access tokens
\* that Login and RefreshToken return are presented, at any later time, to a
\* route behind AuthMiddleware, which holds the secret the service signs with.
SessionEmails == {"alice@x.com"}
\* What the clock advances by in one step: a tick, to the last tick of the
\* lifetime of an access token issued at the start, or past every lifetime.
SessionJumps == {1, AccessTokenExpiration * SubSec - 1, RefreshTokenExpiration * SubSec}

\* A request arrives with the access token of task p's last answer as its
\* bearer token, when the request before it has been answered.
Present(p) ==
    /\ pc[p] = "idle"
    /\ resp[p].accessToken # NoAccess
    /\ ~(request # NoRequest /\ reply.status = 0)
    /\ calls < MaxCalls
    /\ calls' = calls + 1
    /\ request' = [header |-> <<"Bearer", resp[p].accessToken>>,
                   route |-> <<"AuthMiddleware">>, allowedRoles |-> <<>>]
    /\ ctx' = NoContext
    /\ reply' = [NoReply EXCEPT !.at = 1]
    /\ UNCHANGED <<users, tokens, pc, call, local, resp, loggedOut>>
    /\ UNCHANGED <<validated, now, clockSteps>>
    /\ UNCHANGED <<rlVars, passed, catVars, storeErrors>>

NextSession ==
    \/ \E p \in Procs, email \in SessionEmails, password \in RegisterPasswords,
          firstName \in FirstNames, lastName \in LastNames :
            Register(p, email, password, firstName, lastName)
    \/ \E p \in Procs : RegisterCreate(p)
    \/ \E p \in Procs, email \in SessionEmails, password \in RegisterPasswords :
            Login(p, email, password)
    \/ \E p \in Procs : LoginToken(p)
    \/ \E p \in Procs, token \in TokenStrings \ {Forged} : RefreshToken(p, token)
    \/ \E p \in Procs : RefreshUser(p)
    \/ \E id \in 1..Len(users), role \in Roles : SetRole(id, role)
    \/ \E d \in SessionJumps : Tick(d)
    \/ \E p \in Procs : Present(p)
    \/ ServeAuthMiddleware
    \/ ServeHandler

SpecSession == Init /\ [][NextSession]_vars


\* ------------------------------------------------ the product catalog
\* productRepository on the products table
\*   id UUID PRIMARY KEY, name, description, price DECIMAL(10, 2),
\*   category_id UUID REFERENCES categories(id), image_url, stock INTEGER.
\* A price is counted in thousandths; the table keeps hundredths.
ErrProductNotFound == "product not found"
\* Thousandths in one hundredth: the scale 2 of DECIMAL(10, 2).
MillsPerCent == 10
ProductIDs == {1, 2}
ProductNames == {"Margherita", "Pepperoni"}
\* 0.01, 1.004, 1.005
Prices == {10, 1004, 1005}
Stocks == {0, 5}
\* The categories table holds category 1; no category 2 exists.
Categories == {1}
CategoryIDs == {1, 2}
\* The products the repository is called with.
Products ==
    [id : ProductIDs, name : ProductNames, description : {"Classic pizza"},
     price : Prices, categoryID : CategoryIDs, imageURL : {"http://example.com/image.jpg"},
     stock : Stocks]

\* A float64 price as the DECIMAL(10, 2) column takes it: rounded to the
\* hundredth, a half away from zero (prices are positive).
Decimal(price) == ((price + MillsPerCent \div 2) \div MillsPerCent) * MillsPerCent
\* The products table keeping the price as it was given.
ProductRowExact(product) == product

\* The row of a product: its columns, the price as the column holds it.
ProductRow(product) == [product EXCEPT !.price = Decimal(product.price)]

\* The error of the INSERT or UPDATE of a row: the primary key and the
\* foreign key to categories are checked.
ProductExecErr(product, inserting) ==
    IF inserting /\ product.id \in DOMAIN products
    THEN "pq: duplicate key value violates unique constraint"
    ELSE IF product.categoryID \notin Categories
    THEN "pq: insert or update on table violates foreign key constraint"
    ELSE nil

\* SELECT ... FROM products WHERE id = $1 on a table: Scan of the row, or
\* ErrProductNotFound for sql.ErrNoRows.
ProductQueryRow(table, id) ==
    IF id \in DOMAIN table
    THEN [product |-> table[id], err |-> nil]
    ELSE [product |-> NoProduct, err |-> ErrProductNotFound]
\* productRepository.FindByID
ProductFindByID(id) == ProductQueryRow(products, id)

\* The repository's call `op` has returned.
ProductReturn(op, product, found, err) ==
    productCall' = [op |-> op, product |-> product, found |-> found, err |-> err]

\* What the product repository leaves alone.
CatalogFrame ==
    /\ UNCHANGED <<users, tokens, now, clockSteps, calls, pc, call, local, resp, loggedOut>>
    /\ UNCHANGED <<mwVars, rlVars, storeErrors, passed>>

\* productRepository.Create
ProductCreate(product) ==
    /\ LET err == ProductExecErr(product, TRUE) IN
       IF err # nil
       THEN /\ products' = products
            /\ ProductReturn("Create", product, NoProduct, Wrap("failed to create product", err))
       ELSE /\ products' = [id \in DOMAIN products \cup {product.id} |->
                               IF id = product.id THEN ProductRow(product) ELSE products[id]]
            /\ ProductReturn("Create", product, NoProduct, nil)
    /\ CatalogFrame

\* productRepository.Update: every column but id and created_at is set in the
\* row of the id; no row affected is ErrProductNotFound.
ProductUpdate(product) ==
    /\ LET err == ProductExecErr(product, FALSE) IN
       IF product.id \notin DOMAIN products
       THEN /\ products' = products
            /\ ProductReturn("Update", product, NoProduct, ErrProductNotFound)
       ELSE IF err # nil
       THEN /\ products' = products
            /\ ProductReturn("Update", product, NoProduct, Wrap("failed to update product", err))
       ELSE /\ products' = [products EXCEPT ![product.id] = ProductRow(product)]
            /\ ProductReturn("Update", product, NoProduct, nil)
    /\ CatalogFrame

\* productRepository.Delete: no row affected is ErrProductNotFound.
ProductDelete(id) ==
    /\ IF id \notin DOMAIN products
       THEN /\ products' = products
            /\ ProductReturn("Delete", [NoProduct EXCEPT !.id = id], NoProduct, ErrProductNotFound)
       ELSE /\ products' = [i \in DOMAIN products \ {id} |-> products[i]]
            /\ ProductReturn("Delete", [NoProduct EXCEPT !.id = id], NoProduct, nil)
    /\ CatalogFrame

\* productRepository.FindByID is called.
ProductFind(id) ==
    /\ products' = products
    /\ ProductReturn("FindByID", [NoProduct EXCEPT !.id = id],
                     ProductFindByID(id).product, ProductFindByID(id).err)
    /\ CatalogFrame

InitCatalog ==
    /\ users = <<>>
    /\ tokens = <<>>
    /\ now = 0
    /\ clockSteps = 0
    /\ calls = 0
    /\ pc = [p \in Procs |-> "idle"]
    /\ call = [p \in Procs |-> NoCall]
    /\ local = [p \in Procs |-> NoLocal]
    /\ resp = [p \in Procs |-> NoResp]
    /\ loggedOut = {}
    /\ request = NoRequest
    /\ ctx = NoContext
    /\ reply = NoReply
    /\ validated = NoValidated
    /\ config = NoConfig
    /\ counters = NoKeys
    /\ limiter = [p \in Procs |-> NoLimiter]
    /\ storeErrors = 0
    /\ passed = NoPasses
    /\ products = NoProducts
    /\ productCall = NoProductCall

NextCatalog ==
    \/ \E product \in Products : ProductCreate(product)
    \/ \E product \in Products : ProductUpdate(product)
    \/ \E id \in ProductIDs : ProductDelete(id)
    \/ \E id \in ProductIDs : ProductFind(id)

SpecCatalog == InitCatalog /\ [][NextCatalog]_vars


\* ------------------------------------------------------------ claims
\* A minted refresh token: one of the rows of the table.
Minted(token) == token \in 1..Len(tokens)

\* C1: once Logout(token) has returned success for a refresh token minted by
\* Login, every RefreshToken(token) call that starts afterwards, in whatever
\* task, has ended at its lookup with ErrInvalidToken and no access token.
C1_RefreshAfterLogoutFails ==
    \A p \in Procs :
        (call[p].op = "refresh" /\ Minted(call[p].token) /\ call[p].afterLogout) =>
            /\ pc[p] = "idle"
            /\ resp[p].err = ErrInvalidToken
            /\ resp[p].accessToken = NoAccess

\* A refresh of a minted token that began after its logout, with the logout's
\* own answer still held by the other task.
C1_Witness ==
    \E p, q \in Procs :
        /\ call[p].op = "refresh" /\ Minted(call[p].token) /\ call[p].afterLogout
        /\ pc[p] = "idle"
        /\ call[q].op = "logout" /\ call[q].token = call[p].token /\ resp[q].err = nil

\* C2: under every interleaving of RefreshToken(token) and Logout(token), no
\* access token is issued from a refresh token at a moment when its revoked
\* flag is already true in the table.
C2_NoIssuanceFromRevokedToken ==
    [][\A p \in Procs :
        (RefreshUser(p) /\ resp'[p].err = nil) => ~tokens[call[p].token].revoked]_vars

\* C3: a refresh-token row whose revoked flag is true keeps it true in every
\* step, and no step removes a row or changes its token string.
C3_RevokedIsMonotonic ==
    [][/\ Len(tokens') >= Len(tokens)
       /\ \A i \in 1..Len(tokens) :
            /\ tokens'[i].token = tokens[i].token
            /\ tokens[i].revoked => tokens'[i].revoked]_vars

\* Two rows, the first one revoked and still there beside the second.
C3_Witness ==
    /\ Len(tokens) = 2
    /\ tokens[1].revoked
    /\ ~tokens[2].revoked

\* C4: Logout of a token that is not in the table returns success and changes
\* neither table; Logout of a token in the table returns success and leaves it
\* revoked, also when it was revoked already, and changes no other row.
C4_LogoutIdempotent ==
    [][\A p \in Procs :
        (calls' # calls /\ pc[p] = "idle" /\ call'[p].op = "logout") =>
        \A token \in {call'[p].token} \cap TokenStrings :
        Logout(p, token) =>
            /\ pc'[p] = "idle"
            /\ resp'[p].err = nil
            /\ users' = users
            /\ Len(tokens') = Len(tokens)
            /\ \A i \in 1..Len(tokens) :
                IF i = token
                THEN tokens'[i] = [tokens[i] EXCEPT !.revoked = TRUE]
                ELSE tokens'[i] = tokens[i]]_vars

\* A first and a second Logout of the same minted token have both returned
\* success, and the token is revoked.
C4_Witness ==
    \E p, q \in Procs :
        /\ call[p].op = "logout" /\ Minted(call[p].token) /\ call[p].afterLogout
        /\ resp[p].err = nil /\ tokens[call[p].token].revoked
        /\ call[q].op = "logout" /\ call[q].token = call[p].token /\ ~call[q].afterLogout
        /\ resp[q].err = nil

\* C5: RefreshToken ends with ErrInvalidToken at its lookup exactly when the
\* token is unknown or revoked, whatever the clock; it ends with
\* ErrTokenExpired only after the lookup returned a known, non-revoked row,
\* and then exactly when the clock is past the row's expiresAt: at
\* now = expiresAt the token is still accepted.
C5_RefreshFailureClasses ==
    [][\A p \in Procs :
        /\ \A token \in TokenStrings :
            RefreshToken(p, token) =>
                IF ~Minted(token) \/ tokens[token].revoked
                THEN pc'[p] = "idle" /\ resp'[p].err = ErrInvalidToken
                ELSE pc'[p] = "refresh_user" /\ local'[p].rt = tokens[token]
        /\ RefreshUser(p) =>
            /\ Minted(call[p].token)
            /\ ~local[p].rt.revoked
            /\ resp'[p].err = ErrTokenExpired <=> now > local[p].rt.expiresAt
            /\ now <= local[p].rt.expiresAt => resp'[p].err = nil]_vars

\* A refresh that passed its expiry check at the very tick of expiresAt.
C5_Witness ==
    \E p \in Procs :
        /\ call[p].op = "refresh" /\ pc[p] = "idle" /\ resp[p].err = nil
        /\ tokens[call[p].token].expiresAt % SubSec = 0
        /\ resp[p].accessToken.exp
             = NewNumericDate(tokens[call[p].token].expiresAt) + AccessTokenExpiration

\* C6: no step of RefreshToken changes the refresh-token table or the users
\* table, and after a successful RefreshToken the token, unless it has been
\* logged out, is still returned unchanged by the lookup of a further refresh.
C6_RefreshDoesNotRotate ==
    [][\A p \in Procs :
        /\ \A token \in TokenStrings :
            RefreshToken(p, token) => tokens' = tokens /\ users' = users
        /\ RefreshUser(p) =>
            /\ tokens' = tokens /\ users' = users
            /\ (resp'[p].err = nil /\ ~tokens'[call[p].token].revoked) =>
                /\ RefreshLookupErr(FindByToken(call[p].token))' = nil
                /\ FindByToken(call[p].token).rt' = local[p].rt]_vars

\* The same refresh token has served two successful refreshes.
C6_Witness ==
    \E p, q \in Procs :
        /\ p # q
        /\ call[p].op = "refresh" /\ pc[p] = "idle" /\ resp[p].err = nil
        /\ call[q].op = "refresh" /\ pc[q] = "idle" /\ resp[q].err = nil
        /\ call[p].token = call[q].token
        /\ ~tokens[call[p].token].revoked

\* C7: the access token of a successful RefreshToken is accepted by
\* ValidateToken, names the user that owns the refresh token (a registered
\* user, the one whose Login returned the token) and carries the role stored
\* for that user when the refresh looks the user up; a change of role changes
\* no answer already given.
C7_RefreshedTokenCarriesCurrentRole ==
    [][/\ \A p \in Procs :
            (RefreshUser(p) /\ resp'[p].err = nil) =>
                LET v == ValidateToken(resp'[p].accessToken, now') IN
                /\ v.err = nil
                /\ v.claims.user_id = tokens[call[p].token].userID
                /\ v.claims.user_id \in 1..Len(users)
                /\ users[v.claims.user_id].id = v.claims.user_id
                /\ v.claims.role = users[v.claims.user_id].role
       /\ \A q \in Procs :
            (call[q].op = "login" /\ pc[q] = "idle" /\ resp[q].err = nil) =>
                /\ Minted(resp[q].refreshToken)
                /\ tokens[resp[q].refreshToken].userID = resp[q].user.id
       /\ \A id \in 1..Len(users), role \in Roles :
            SetRole(id, role) => resp' = resp]_vars

\* A user logged in as "user", was made "admin", and the refresh answers with
\* an "admin" token while the login's token still says "user".
C7_Witness ==
    \E p, q \in Procs :
        /\ call[p].op = "refresh" /\ pc[p] = "idle" /\ resp[p].err = nil
        /\ resp[p].accessToken.role = "admin"
        /\ call[q].op = "login" /\ pc[q] = "idle" /\ resp[q].err = nil
        /\ resp[q].refreshToken = call[p].token
        /\ resp[q].accessToken.role = "user"
        /\ resp[q].accessToken.user_id = resp[p].accessToken.user_id

\* C8: the access token of every successful Login carries an issued-at and an
\* expires-at claim and the id and role of the user record Login returns, the
\* record of the email that logged in; ValidateToken accepts it, with these
\* claims, at every time before its expires-at.
C8_LoginTokenValidates ==
    \A p \in Procs :
        (call[p].op = "login" /\ pc[p] = "idle" /\ resp[p].err = nil) =>
            LET a == resp[p].accessToken
                v == ValidateToken(a, now)
            IN
            /\ a.iat # NilDate
            /\ a.exp # NilDate
            /\ resp[p].user.email = call[p].email
            /\ resp[p].user.id \in 1..Len(users)
            /\ users[resp[p].user.id].email = call[p].email
            /\ a.user_id = resp[p].user.id
            /\ a.role = resp[p].user.role
            /\ now < DateTime(a.exp) =>
                /\ v.err = nil
                /\ v.claims.user_id = resp[p].user.id
                /\ v.claims.role = resp[p].user.role

\* A user whose role was set to "admin" has logged in and the token is not
\* yet expired.
C8_Witness ==
    \E p \in Procs :
        /\ call[p].op = "login" /\ pc[p] = "idle" /\ resp[p].err = nil
        /\ resp[p].user.role = "admin"
        /\ now < DateTime(resp[p].accessToken.exp)

\* C9: every access token issued by Login or RefreshToken has
\* expiresAt - issuedAt equal to exactly AccessTokenExpiration seconds,
\* whatever the clock does between the steps of token generation.
C9_AccessTokenLifetime ==
    \A p \in Procs :
        resp[p].accessToken # NoAccess =>
            resp[p].accessToken.exp - resp[p].accessToken.iat = AccessTokenExpiration

\* C10: a Login whose email matches no user and a Login whose password does
\* not match end with one and the same answer, ErrInvalidCredentials with
\* status 401 and the message "invalid email or password", and neither adds
\* a refresh token.
C10_LoginFailuresIndistinguishable ==
    [][\A p \in Procs :
        (calls' # calls /\ pc[p] = "idle" /\ call'[p].op = "login") =>
        \A email \in {call'[p].email} \cap Emails, password \in Passwords :
        (/\ \/ FindByEmail(email).err = ErrUserNotFound
            \/ verifyPassword(FindByEmail(email).user.passwordHash, password) # nil
         /\ Login(p, email, password)) =>
            /\ pc'[p] = "idle"
            /\ resp'[p] = Answer(ErrInvalidCredentials, NoAccess, 0, NoUser,
                                 [status |-> StatusUnauthorized,
                                  message |-> "invalid email or password"])
            /\ tokens' = tokens]_vars

\* One task holds the answer to a login with an unknown email, the other the
\* answer to a login with a known email and a wrong password: the same answer.
C10_Witness ==
    \E p, q \in Procs :
        /\ call[p].op = "login" /\ pc[p] = "idle" /\ ~call[p].knownEmail
        /\ call[q].op = "login" /\ pc[q] = "idle" /\ call[q].knownEmail
        /\ resp[q].err # nil
        /\ resp[p] = resp[q]

\* C11: each successful Login adds exactly one refresh-token row, owned by the
\* user that logged in, not revoked, expiring RefreshTokenExpiration after its
\* creation time, and changes no other row; the new token and every earlier
\* one are accepted by the lookup of RefreshToken.
C11_LoginAddsOneRefreshToken ==
    [][\A p \in Procs :
        LoginToken(p) =>
            /\ Len(tokens') = Len(tokens) + 1
            /\ \A i \in 1..Len(tokens) : tokens'[i] = tokens[i]
            /\ LET row == tokens'[Len(tokens')] IN
                /\ row.userID = local[p].user.id
                /\ row.token = resp'[p].refreshToken
                /\ ~row.revoked
                /\ row.expiresAt = row.createdAt + RefreshTokenExpiration * SubSec
            /\ \A i \in 1..Len(tokens') :
                ~tokens'[i].revoked => RefreshLookupErr(FindByToken(i))' = nil]_vars

\* errors.Is for the errors of this service: err is target, or wraps it.
WrapPrefixes == {"failed to create user", "failed to find user", "failed to check existing user"}
Is(err, target) == err = target \/ \E prefix \in WrapPrefixes : err = Wrap(prefix, target)

\* C12: no step leaves two user rows with the same email, whatever the
\* interleaving of the Register calls; a Register that finds its email
\* registered ends with ErrUserAlreadyExists, and one that finds it registered
\* only at the insert ends with an error that wraps ErrUserAlreadyExists;
\* neither adds a row.
C12_OneUserPerEmail ==
    [][/\ \A i, j \in 1..Len(users') : users'[i].email = users'[j].email => i = j
       /\ \A p \in Procs, email \in Emails, password \in RegisterPasswords,
             firstName \in FirstNames, lastName \in LastNames :
            (Register(p, email, password, firstName, lastName) /\ \E i \in 1..Len(users) : users[i].email = email) =>
                /\ pc'[p] = "idle"
                /\ resp'[p].err = ErrUserAlreadyExists
                /\ users' = users
       /\ \A p \in Procs :
            (RegisterCreate(p) /\ \E i \in 1..Len(users) : users[i].email = call[p].email) =>
                /\ resp'[p].err # nil
                /\ Is(resp'[p].err, ErrUserAlreadyExists)
                /\ users' = users]_vars

\* Both emails are registered, and a second Register of one of them has ended
\* with ErrUserAlreadyExists.
C12_Witness ==
    /\ Len(users) = 2
    /\ \E p \in Procs :
        /\ call[p].op = "register" /\ pc[p] = "idle" /\ call[p].knownEmail
        /\ resp[p].err = ErrUserAlreadyExists
        /\ Cardinality({i \in 1..Len(users) : users[i].email = call[p].email}) = 1

\* C13: a Register that passed the lookup by email and lost at the insert to a
\* concurrent Register of the same email ends like a sequential duplicate:
\* with ErrUserAlreadyExists and the answer 409.
C13_ConcurrentDuplicateIsConflict ==
    \A p \in Procs :
        (call[p].op = "register" /\ pc[p] = "idle" /\ ~call[p].knownEmail /\ resp[p].err # nil) =>
            /\ resp[p].err = ErrUserAlreadyExists
            /\ resp[p].status = StatusConflict
            /\ resp[p].message = "user with this email already exists"

\* C14: the only steps that add a user row are those of Register, they add one
\* row at a time, and the row added, which is the record returned, has role
\* "user" whatever the email and the password; they change no other row.
C14_RegisteredRoleIsUser ==
    [][/\ Len(users') # Len(users) => \E p \in Procs : RegisterCreate(p)
       /\ \A p \in Procs :
            RegisterCreate(p) =>
                /\ \A i \in 1..Len(users) : users'[i] = users[i]
                /\ resp'[p].err # nil => users' = users
                /\ resp'[p].err = nil =>
                    /\ Len(users') = Len(users) + 1
                    /\ users'[Len(users')].role = "user"
                    /\ users'[Len(users')].email = call[p].email
                    /\ resp'[p].user = users'[Len(users')]]_vars

\* A Register has just returned a user with role "user" while the user
\* registered before it is an administrator.
C14_Witness ==
    \E p \in Procs :
        /\ call[p].op = "register" /\ pc[p] = "idle" /\ resp[p].err = nil
        /\ resp[p].user.id = 2 /\ Len(users) = 2
        /\ users[2].role = "user"
        /\ users[1].role = "admin"

\* The hash column holding the password itself: no cost, no salt, the text
\* for digest.
PlainText(password) == [cost |-> 0, salt |-> 0, digest |-> <<0, 0, password>>]
\* The password a hash was computed from.
HashedFrom(hashedPassword) == hashedPassword.digest[3]

RequestToken == request.header[2]
\* A token that is a JWT with an HMAC signature made with the service's secret.
SignedBySecret(tokenString) ==
    /\ tokenString # NoAccess
    /\ tokenString.alg \in {"HS256", "HS384", "HS512"}
    /\ tokenString.sig = jwtSecret
\* A token whose exp claim is not after t.
ExpiredToken(tokenString, t) == tokenString.exp # NilDate /\ t >= DateTime(tokenString.exp)

\* C16: whatever the users table holds, ValidateToken ends with
\* ErrInvalidToken for a malformed token, for a token signed with another
\* secret and for a token whose user_id or role claim has the wrong shape,
\* and accepts, with its claims, a well-shaped token signed with the secret
\* that has not expired.
C16_ValidateTokenInvalidToken ==
    [][CallValidateToken =>
        /\ (\/ RequestToken = NoAccess
            \/ RequestToken.sig # jwtSecret
            \/ RequestToken.user_id \in {NotAUUID, NotAString}
            \/ RequestToken.role = RoleNotAString) => validated'.err = ErrInvalidToken
        /\ (/\ SignedBySecret(RequestToken)
            /\ ~ExpiredToken(RequestToken, now)
            /\ RequestToken.user_id \notin {NotAUUID, NotAString}
            /\ RequestToken.role # RoleNotAString) =>
                validated' = [claims |-> RequestToken, err |-> nil]]_vars

\* C17: ValidateToken and AuthMiddleware reject every token whose header
\* names an algorithm other than HS256, also one signed with the secret.
C17_OneAlgorithmAllowed ==
    [][/\ (CallValidateToken /\ RequestToken # NoAccess /\ RequestToken.alg # "HS256") =>
            validated'.err # nil
       /\ (/\ ServeAuthMiddleware
           /\ Len(request.header) = 2
           /\ RequestToken # NoAccess
           /\ RequestToken.alg # "HS256") =>
            reply'.status = StatusUnauthorized]_vars

\* The header is "Bearer <token>", the token is signed with the secret, is not
\* expired at t and carries string user_id and role claims.
Authentic(authHeader, t) ==
    /\ Len(authHeader) = 2
    /\ authHeader[1] = "Bearer"
    /\ SignedBySecret(authHeader[2])
    /\ ~ExpiredToken(authHeader[2], t)
    /\ authHeader[2].user_id # NotAString
    /\ authHeader[2].role # RoleNotAString

C19_ExpiredIsDistinguished ==
    [][(ServeAuthMiddleware /\ Len(request.header) = 2 /\ request.header[1] = "Bearer") =>
        /\ (SignedBySecret(RequestToken) /\ ExpiredToken(RequestToken, now)) =>
            /\ reply'.status = StatusUnauthorized
            /\ reply'.message = "token expired"
        /\ (RequestToken = NoAccess \/ RequestToken.sig # jwtSecret) =>
            /\ reply'.status = StatusUnauthorized
            /\ reply'.message = "invalid token"]_vars

\* C20: RequireRole passes the request on, its context unchanged, exactly
\* when the context carries a role that is one of the allowed ones, and
\* answers 403, which is not the 401 of AuthMiddleware, otherwise;
\* RequireAdmin does what RequireRole does with the one allowed role "admin".
C20_RequireRoleOutcomes ==
    [][/\ ServeRequireRole =>
            IF /\ GetUserRole(ctx).ok
               /\ \E i \in 1..Len(request.allowedRoles) :
                    request.allowedRoles[i] = GetUserRole(ctx).role
            THEN reply' = [reply EXCEPT !.at = reply.at + 1] /\ ctx' = ctx
            ELSE /\ reply'.status = StatusForbidden
                 /\ reply'.status # StatusUnauthorized
                 /\ reply'.at = reply.at
                 /\ ~reply'.handled
       /\ ServeRequireAdmin =>
            /\ RequireAdmin(ctx) = RequireRole(<<"admin">>, ctx)
            /\ IF GetUserRole(ctx).ok /\ GetUserRole(ctx).role = "admin"
               THEN reply' = [reply EXCEPT !.at = reply.at + 1] /\ ctx' = ctx
               ELSE reply'.status = StatusForbidden /\ reply'.at = reply.at /\ ~reply'.handled
       /\ reply.status # 0 => reply' = reply]_vars

\* RequireRole has let an administrator through to the handler, "admin" being
\* the second of the allowed roles.
C20_Witness ==
    /\ request.route = <<"AuthMiddleware", "RequireRole">>
    /\ request.allowedRoles = <<"user", "admin">>
    /\ GetUserRole(ctx) = [role |-> "admin", ok |-> TRUE]
    /\ reply.handled

\* C21: a request whose increment succeeded gets the count the key had plus
\* one (1 if the key was not there), reaches the handler exactly when that
\* count is at most RequestsPerWindow and is answered 429 otherwise, whatever
\* the interleaving; two requests of one window of one key never hold the same
\* count; the key is the prefix and the context's user ID if there is one, else
\* the prefix and the remote address; no step of a request changes the
\* counter of another key.
C21_FirstNRequestsPass ==
    [][\A p \in Procs :
        /\ (limiter'[p] # limiter[p] /\ limiter'[p].at = "idle" /\ limiter'[p].counted) =>
            /\ limiter'[p].handled <=> limiter'[p].count <= config.RequestsPerWindow
            /\ ~limiter'[p].handled => limiter'[p].status = StatusTooManyRequests
        /\ \A q \in Procs \ {p} :
            (/\ limiter'[p].counted /\ limiter'[q].counted
             /\ limiter'[p].key = limiter'[q].key
             /\ limiter'[p].window = limiter'[q].window) =>
                limiter'[p].count # limiter'[q].count
        /\ \A r \in RateLimitRequests :
            RateLimitMiddleware(p, r.remoteAddr, r.ctx) =>
                /\ limiter'[p].key =
                     IF r.ctx[UserIDKey].ok
                     THEN config.KeyPrefix \o ":" \o ToString(r.ctx[UserIDKey].value)
                     ELSE config.KeyPrefix \o ":" \o r.remoteAddr
                /\ limiter'[p].counted =>
                     limiter'[p].count =
                        IF Exists(limiter'[p].key, now) THEN counters[limiter'[p].key].count + 1
                        ELSE 1
        /\ limiter'[p] # limiter[p] =>
            \A key \in DOMAIN counters' \ {limiter'[p].key} :
                key \in DOMAIN counters /\ counters'[key] = counters[key]]_vars

\* With a limit of two, the second request of a window has reached the handler
\* and the third was answered 429, while another key has been counted too.
C21_Witness ==
    /\ config.RequestsPerWindow = 2
    /\ \E p, q \in Procs :
        /\ limiter[p].at = "idle" /\ limiter[q].at = "idle"
        /\ limiter[p].counted /\ limiter[q].counted
        /\ limiter[p].key = limiter[q].key /\ limiter[p].window = limiter[q].window
        /\ limiter[p].count = 2 /\ limiter[p].handled
        /\ limiter[q].count = 3 /\ limiter[q].status = StatusTooManyRequests
        /\ ~limiter[q].handled
        /\ \E key \in DOMAIN counters : key # limiter[p].key /\ counters[key].count = 1

\* C22: every counter in the store whose first request is past its call of
\* Expire has an expiry, so that it is gone when the window has lapsed and
\* its client is allowed again: no counter stays in the store without end.
C22_CounterExpires ==
    \A key \in DOMAIN counters :
        (/\ Exists(key, now)
         /\ ~\E p \in Procs : limiter[p].at = "expire" /\ limiter[p].key = key) =>
            counters[key].expiresAt # NoExpiry

\* C23: a request whose increment returns an error is passed on to the
\* handler and is not answered 429, and leaves the counter store as it was.
C23_FailsOpen ==
    [][\A p \in Procs :
        (/\ limiter[p].at = "idle"
         /\ limiter'[p] # limiter[p]
         /\ storeErrors' # storeErrors) =>
            /\ limiter'[p].at = "idle"
            /\ limiter'[p].handled
            /\ limiter'[p].status # StatusTooManyRequests
            /\ counters' = counters]_vars

\* The increment of a request has failed although its key was over the limit,
\* and the request has reached the handler.
C23_Witness ==
    \E p \in Procs :
        /\ limiter[p].at = "idle"
        /\ limiter[p].key # ""
        /\ ~limiter[p].counted
        /\ limiter[p].handled
        /\ storeErrors = 1
        /\ Exists(limiter[p].key, now)
        /\ counters[limiter[p].key].count > config.RequestsPerWindow

\* C24: every response RateLimitMiddleware has let out carries
\* X-RateLimit-Limit and X-RateLimit-Remaining, and one that did not reach the
\* handler carries Retry-After and the status 429 as well.
C24_HeadersOnEveryResponse ==
    \A p \in Procs :
        (limiter[p].at = "idle" /\ limiter[p].status # 0) =>
            /\ limiter[p].limit # NoHeader
            /\ limiter[p].remaining # NoHeader
            /\ ~limiter[p].handled =>
                /\ limiter[p].retryAfter # NoHeader
                /\ limiter[p].status = StatusTooManyRequests

\* C25: the Retry-After of every response with status 429 is a number of
\* seconds greater than zero.
C25_RetryAfterPositive ==
    \A p \in Procs :
        (limiter[p].at = "idle" /\ limiter[p].status = StatusTooManyRequests) =>
            limiter[p].retryAfter > 0

\* C26: a request that is past the middleware of the router, at the auth gate
\* or in its handler, has been counted: the counter store holds a count for it.
C26_CountedBeforeHandlers ==
    (request # NoRequest /\ reply.at > Len(NewServer)) =>
        \E key \in DOMAIN counters : counters[key].count > 0

\* C27: every answer to a logout request whose body carries a refresh token
\* has the status 200, whatever the state of the token and of the tables.
C27_LogoutAlwaysOK ==
    (/\ request # NoRequest
     /\ request.endpoint = "logout"
     /\ request.body.json
     /\ request.body.refreshToken # EmptyToken
     /\ reply.status # 0) =>
        reply.status = StatusOK

\* C28: any two answers of the refresh endpoint to a token that is expired,
\* revoked or was never issued have the same status and the same message.
C28_RefreshFailuresIdentical ==
    \A p, q \in Procs :
        (/\ call[p].op = "refresh" /\ call[q].op = "refresh"
         /\ pc[p] = "idle" /\ pc[q] = "idle"
         /\ resp[p].err \in {ErrInvalidToken, ErrTokenExpired}
         /\ resp[q].err \in {ErrInvalidToken, ErrTokenExpired}) =>
            /\ resp[p].status = resp[q].status
            /\ resp[p].message = resp[q].message

\* C29: every answer of the register endpoint to a well-formed registration
\* is 409, with no user row added, when a row with the email is in the table,
\* and otherwise 201 with the user (id, email, first name, last name, role
\* "user") of the one row it has added.
C29_RegisterAnswers ==
    [][\A p \in Procs :
        (/\ call'[p].op = "register"
         /\ pc'[p] = "idle"
         /\ pc[p] # "idle" \/ resp'[p] # resp[p]) =>
            IF \E i \in 1..Len(users) : users[i].email = call'[p].email
            THEN /\ resp'[p].status = StatusConflict
                 /\ users' = users
            ELSE /\ resp'[p].status = StatusCreated
                 /\ users' = Append(users, resp'[p].user)
                 /\ resp'[p].user.email = call'[p].email
                 /\ resp'[p].user.firstName = call'[p].firstName
                 /\ resp'[p].user.lastName = call'[p].lastName
                 /\ resp'[p].user.role = "user"]_vars

\* C30: when a store call of Register, Login, Logout or RefreshToken returns
\* an unexpected error, the request ends at that call: the task makes no
\* further store call and adds no row; its error is none of
\* ErrUserAlreadyExists, ErrInvalidCredentials, ErrInvalidToken and
\* ErrTokenExpired, it returns no access token and no refresh token, and the
\* endpoint answers with a 5xx status.
C30_FailsClosed ==
    [][storeErrors' # storeErrors =>
        \A p \in Procs :
            (pc'[p] # pc[p] \/ resp'[p] # resp[p] \/ call'[p] # call[p]) =>
                /\ pc'[p] = "idle"
                /\ resp'[p].err # nil
                /\ resp'[p].err \notin {ErrUserAlreadyExists, ErrInvalidCredentials,
                                        ErrInvalidToken, ErrTokenExpired}
                /\ resp'[p].accessToken = NoAccess
                /\ resp'[p].refreshToken = 0
                /\ resp'[p].status >= 500
                /\ resp'[p].status < 600
                /\ users' = users
                /\ Len(tokens') = Len(tokens)]_vars

\* The insert of a login's refresh token has failed after its access token was
\* generated, and the other task has been served a logout.
C30_Witness ==
    /\ storeErrors = 1
    /\ \E p, q \in Procs :
        /\ call[p].op = "login"
        /\ pc[p] = "idle"
        /\ resp[p].err = Wrap("failed to generate refresh token", TokenCreateUnavailable)
        /\ resp[p].status = StatusInternalServerError
        /\ call[q].op = "logout"
        /\ resp[q].status = StatusOK

\* Task p has taken this step, and no other task has.
ActedAlone(p) ==
    /\ pc[p] # "idle" \/ calls' # calls
    /\ \A q \in Procs \ {p} : pc'[q] = pc[q] /\ resp'[q] = resp[q] /\ call'[q] = call[q]

\* C31: a step of Register, Login, Logout or RefreshToken that changes the
\* users table or the refresh_tokens table is the last step of its
\* operation, so that an operation stopped between two steps has changed no
\* table; and an operation that ends with an error has left both tables as
\* they were, RefreshToken leaving them so however it ends.
C31_NoPartialState ==
    [][\A p \in Procs :
        ActedAlone(p) =>
            /\ (users' # users \/ tokens' # tokens) => pc'[p] = "idle"
            /\ (pc'[p] = "idle" /\ resp'[p].err # nil) => users' = users /\ tokens' = tokens
            /\ call'[p].op = "refresh" => users' = users /\ tokens' = tokens]_vars

\* The times at which an issued token is presented: now, and the last tick
\* before and the first tick of its expires-at.
PresentedAt(a) == {now, DateTime(a.exp) - 1, DateTime(a.exp)}

\* C32: whatever the users table and the refresh_tokens table hold by then,
\* ValidateToken and AuthMiddleware answer for an access token that Login or
\* RefreshToken has issued from the token and the time alone: before its
\* expires-at the token is accepted with the claims it was issued with, also
\* after the Logout of its refresh token and after a change of its user's
\* role, and from its expires-at on it is refused.
C32_StatelessValidation ==
    \A p \in Procs :
        LET a == resp[p].accessToken IN
        (pc[p] = "idle" /\ resp[p].err = nil /\ a # NoAccess) =>
            \A t \in PresentedAt(a) :
                LET v == ValidateToken(a, t)
                    m == AuthMiddleware(NoContext, <<"Bearer", a>>, t)
                IN
                IF t < DateTime(a.exp)
                THEN /\ v = [claims |-> a, err |-> nil]
                     /\ m.next
                     /\ GetUserID(m.ctx) = [userID |-> a.user_id, ok |-> TRUE]
                     /\ GetUserRole(m.ctx) = [role |-> a.role, ok |-> TRUE]
                ELSE /\ v.err # nil
                     /\ ~m.next /\ m.status = StatusUnauthorized

\* A login's access token is presented before its expiry although the
\* refresh token of that login has been logged out and the user's role is no
\* longer the one in the token.
C32_Witness ==
    \E p \in Procs :
        /\ call[p].op = "login" /\ pc[p] = "idle" /\ resp[p].err = nil
        /\ resp[p].refreshToken \in loggedOut
        /\ users[resp[p].accessToken.user_id].role # resp[p].accessToken.role
        /\ now < DateTime(resp[p].accessToken.exp)
        /\ ValidateToken(resp[p].accessToken, now).claims.role = resp[p].accessToken.role

\* The products table apart from the row of `id`.
OtherRows(table, id) == [i \in DOMAIN table \ {id} |-> table[i]]

\* C33: FindByID after a successful Create(p) returns p's attributes, after
\* a successful Update(p) the updated attributes, each exactly as given and
\* so the price as well; after Delete(id) it returns ErrProductNotFound; an
\* Update or Delete of an id that is not in the store returns
\* ErrProductNotFound and changes no row.
C33_ProductRoundTripExact ==
    [][/\ (productCall'.op \in {"Create", "Update"} /\ productCall'.err = nil) =>
            ProductQueryRow(products', productCall'.product.id) =
                [product |-> productCall'.product, err |-> nil]
       /\ (productCall'.op = "Delete" /\ productCall'.err = nil) =>
            ProductQueryRow(products', productCall'.product.id) =
                [product |-> NoProduct, err |-> ErrProductNotFound]
       /\ (/\ productCall'.op \in {"Update", "Delete"}
           /\ productCall'.product.id \notin DOMAIN products) =>
            /\ productCall'.err = ErrProductNotFound
            /\ products' = products]_vars

\* C33, amended: FindByID after a successful Create(p) or Update(p) returns
\* p's id, name, description, category, image URL and stock as given and p's
\* price rounded to the hundredth, not more than 0.005 from the price given,
\* and no other row has changed; after Delete(id) it returns
\* ErrProductNotFound, the other rows unchanged; an Update or Delete of an id
\* that is not in the store returns ErrProductNotFound and changes no row.
C33_ProductRoundTrip ==
    [][/\ (productCall'.op \in {"Create", "Update"} /\ productCall'.err = nil) =>
            LET p == productCall'.product
                found == ProductQueryRow(products', p.id)
            IN
            /\ found.err = nil
            /\ [found.product EXCEPT !.price = p.price] = p
            /\ found.product.price % MillsPerCent = 0
            /\ 2 * (found.product.price - p.price) <= MillsPerCent
            /\ 2 * (p.price - found.product.price) < MillsPerCent
            /\ OtherRows(products', p.id) = OtherRows(products, p.id)
       /\ (productCall'.op = "Delete" /\ productCall'.err = nil) =>
            /\ ProductQueryRow(products', productCall'.product.id) =
                [product |-> NoProduct, err |-> ErrProductNotFound]
            /\ OtherRows(products', productCall'.product.id) =
                    OtherRows(products, productCall'.product.id)
       /\ (/\ productCall'.op \in {"Update", "Delete"}
           /\ productCall'.product.id \notin DOMAIN products) =>
            /\ productCall'.err = ErrProductNotFound
            /\ products' = products]_vars

\* An Update to the price 1.004 has succeeded on a table with both products,
\* the row now reads 1.00, and the other product's row reads 1.01, the price
\* 1.005 rounded.
C33_Witness ==
    /\ productCall.op = "Update" /\ productCall.err = nil
    /\ productCall.product.price = 1004
    /\ DOMAIN products = ProductIDs
    /\ ProductFindByID(productCall.product.id).product.price = 1000
    /\ \E id \in ProductIDs \ {productCall.product.id} : products[id].price = 1010

\* The configured window, in ticks.
WindowTicks == config.Window \div TickNanos

\* C34: the expiry of a counter is set by one step only, the Expire of the
\* request whose increment returned 1, and is then the time of that call plus
\* the window; an increment that returns more than 1 adds one to the count
\* and leaves the expiry as it is, whether the request is then allowed or
\* rejected, and so does every other step of a request.
C34_OnlyFirstHitSetsTTL ==
    [][/\ \A key \in DOMAIN counters :
            counters'[key].expiresAt # counters[key].expiresAt =>
                \/ /\ counters'[key].count = 1
                   /\ counters'[key].expiresAt = NoExpiry
                   /\ counters'[key].window = counters[key].window + 1
                \/ \E p \in Procs :
                    /\ RateLimitExpire(p)
                    /\ limiter[p].key = key
                    /\ limiter[p].count = 1
                    /\ counters[key].expiresAt = NoExpiry
                    /\ counters'[key].expiresAt = now + WindowTicks
       /\ \A p \in Procs :
            (/\ limiter[p].at = "idle" /\ limiter'[p] # limiter[p]
             /\ limiter'[p].counted /\ limiter'[p].count > 1) =>
                LET key == limiter'[p].key IN
                /\ counters'[key].count = counters[key].count + 1
                /\ counters'[key].expiresAt = counters[key].expiresAt
       /\ \A p \in Procs : RateLimitTTL(p) => counters' = counters]_vars

\* A client over its limit has been answered 429 and time has passed since
\* the expiry of its counter was set: the counter ends less than a window
\* from now.
C34_Witness ==
    \E p \in Procs :
        /\ limiter[p].at = "idle" /\ limiter[p].status = StatusTooManyRequests
        /\ Exists(limiter[p].key, now)
        /\ counters[limiter[p].key].count > config.RequestsPerWindow
        /\ counters[limiter[p].key].expiresAt # NoExpiry
        /\ counters[limiter[p].key].expiresAt < now + WindowTicks

\* C35: when no request is between its increment and its call of Expire,
\* every counter that is in the store has an expiry, and one that is not more
\* than the window away, also after a call of Expire that failed.
C35_NoCounterWithoutExpiry ==
    (\A p \in Procs : limiter[p].at # "expire") =>
        \A key \in DOMAIN counters :
            Exists(key, now) =>
                /\ counters[key].expiresAt # NoExpiry
                /\ counters[key].expiresAt - now <= WindowTicks

\* The requests with this key that were let through at a time from..to - 1;
\* with countedOnly, those among them whose increment had succeeded.
PassedIn(key, from, to, countedOnly) ==
    Cardinality({i \in 1..Len(passed[key]) :
        /\ from <= passed[key][i].at /\ passed[key][i].at < to
        /\ countedOnly => passed[key][i].counted})

\* C36: for every key and every interval that is one window long (it ends
\* before the tick a window after its start), at most 2 * RequestsPerWindow
\* requests with the key have been handed to the handler at a time in the
\* interval.
C36_TwiceTheLimitPerWindow ==
    \A key \in DOMAIN passed :
        \A from \in 0..now :
            PassedIn(key, from, from + WindowTicks, FALSE) <= 2 * config.RequestsPerWindow

\* C36, amended: for every key and every interval that is one window long,
\* its last instant included, at most 2 * RequestsPerWindow requests with the
\* key whose increment succeeded have been handed to the handler at a time in
\* the interval, and those are requests of at most two windows of the key,
\* at most RequestsPerWindow of each; the requests let through because the
\* increment failed come on top, without a bound.
C36_TwiceTheLimitCounted ==
    \A key \in DOMAIN passed :
        /\ \A from \in 0..now :
            /\ PassedIn(key, from, from + WindowTicks + 1, TRUE) <= 2 * config.RequestsPerWindow
            /\ Cardinality({passed[key][i].window : i \in
                    {j \in 1..Len(passed[key]) :
                        /\ passed[key][j].counted
                        /\ from <= passed[key][j].at
                        /\ passed[key][j].at <= from + WindowTicks}}) <= 2
        /\ \A w \in {passed[key][i].window : i \in 1..Len(passed[key])} :
            Cardinality({i \in 1..Len(passed[key]) :
                passed[key][i].counted /\ passed[key][i].window = w})
                    <= config.RequestsPerWindow

\* Requests of two windows of a key have been let through a window apart, and
\* between them one whose increment failed.
C36_Witness ==
    \E key \in DOMAIN passed :
        \E i, j, k \in 1..Len(passed[key]) :
            /\ i < j /\ j < k
            /\ passed[key][i].counted /\ passed[key][k].counted
            /\ ~passed[key][j].counted
            /\ passed[key][i].window # passed[key][k].window
            /\ passed[key][k].at = passed[key][i].at + WindowTicks

\* C37: an access token that Login or RefreshToken returns carries the id of
\* the user it is issued to and the role that user has when it is issued;
\* presented to AuthMiddleware before its expires-at it is let through with
\* that id and role in the context, whatever the users table holds by then,
\* and presented after its expires-at it is answered 401.
C37_IssuedTokenAtTheGate ==
    [][/\ ServeAuthMiddleware =>
            LET a == request.header[2] IN
            /\ now < DateTime(a.exp) =>
                /\ reply' = [reply EXCEPT !.at = reply.at + 1]
                /\ GetUserID(ctx') = [userID |-> a.user_id, ok |-> TRUE]
                /\ GetUserRole(ctx') = [role |-> a.role, ok |-> TRUE]
            /\ now > DateTime(a.exp) =>
                /\ reply'.status = StatusUnauthorized
                /\ ~reply'.handled
       /\ \A p \in Procs :
            /\ (pc[p] = "idle" /\ pc'[p] = "login_token") =>
                /\ FindByEmail(call'[p].email).err = nil
                /\ local'[p].access.user_id = FindByEmail(call'[p].email).user.id
                /\ local'[p].access.role = FindByEmail(call'[p].email).user.role
            /\ (pc[p] = "login_token" /\ pc'[p] = "idle" /\ resp'[p].err = nil) =>
                resp'[p].accessToken = local[p].access
            /\ (pc[p] = "refresh_user" /\ pc'[p] = "idle" /\ resp'[p].err = nil) =>
                /\ resp'[p].accessToken.user_id = local[p].rt.userID
                /\ resp'[p].accessToken.role = users[local[p].rt.userID].role]_vars

\* A token issued to a user whose role has been changed since has reached
\* the handler on the last tick before its expires-at, with the role it was
\* issued with in the context.
C37_Witness ==
    /\ request # NoRequest
    /\ reply.handled
    /\ now = DateTime(request.header[2].exp) - 1
    /\ GetUserRole(ctx).role = request.header[2].role
    /\ users[GetUserID(ctx).userID].role # GetUserRole(ctx).role

\* C38: a request with a well-formed Bearer header is let through by
\* AuthMiddleware exactly when ValidateToken returns claims for its token
\* at that time, and the user id and role put in the context are those of
\* the claims.  (Violated: a token signed with the secret whose user_id is a
\* string but no UUID is let through, while ValidateToken cannot decode it.)
C38_SameAcceptance ==
    [][(/\ ServeAuthMiddleware
        /\ Len(request.header) = 2
        /\ request.header[1] = "Bearer") =>
            LET v == ValidateToken(request.header[2], now) IN
            /\ (reply'.status = 0) <=> (v.err = nil)
            /\ (reply'.status = 0) =>
                /\ GetUserID(ctx').userID = v.claims.user_id
                /\ GetUserRole(ctx').role = v.claims.role]_vars

\* C39: a logout request revokes only refresh tokens of the user it is
\* authenticated as: every row of the tokens table that the Logout handler
\* turns revoked is owned by the user id AuthMiddleware put in the context.
\* (Violated: the handler revokes the token named in the body, whoever owns
\* it.)
C39_LogoutRevokesOwnTokensOnly ==
    [][(ServeEndpoint /\ request.endpoint = "logout") =>
            \A i \in 1..Len(tokens) :
                (~tokens[i].revoked /\ tokens'[i].revoked) =>
                    /\ GetUserID(ctx).ok
                    /\ GetUserID(ctx).userID = tokens[i].userID]_vars

====
